---- MODULE Spec2Model ----
(***************************************************************************)
(* Request handling of the automation API (src/api.py and src/tools).      *)
(*                                                                         *)
(* Text is a sequence of one-character strings.  The report directory is   *)
(* a function from report paths to file contents, the two request logs are *)
(* the character contents of logs/requests.log and logs/requests.jsonl.    *)
(* Worker threads handle requests; a handler that touches the report       *)
(* directory or the logs takes one step per file operation, so that the    *)
(* steps of two requests interleave.                                       *)
(***************************************************************************)
EXTENDS Integers, Sequences, FiniteSets, TLC

\* ---------------------------------------------------------------------
\* Bounds of the model
\* ---------------------------------------------------------------------
\* the wall clock runs through the seconds 0..MaxClock
MaxClock == 1
\* requests accepted by the server in one behaviour
MaxRequests == 2
\* worker threads serving requests concurrently
NumWorkers == 2

Workers == 1..NumWorkers

\* ---------------------------------------------------------------------
\* Text helpers (Python str methods)
\* ---------------------------------------------------------------------
\* Python's None, kept apart from every text (a text holds 1-character strings)
None == <<"<None>">>

Whitespace == {" ", "\n", "\t"}

RECURSIVE LStrip(_)
LStrip(s) ==
    IF s # <<>> /\ Head(s) \in Whitespace THEN LStrip(Tail(s)) ELSE s

RECURSIVE RStrip(_)
RStrip(s) ==
    IF s # <<>> /\ s[Len(s)] \in Whitespace
    THEN RStrip(SubSeq(s, 1, Len(s) - 1))
    ELSE s

\* str.strip()
Strip(s) == RStrip(LStrip(s))

\* index of the first whitespace character of s, Len(s)+1 when there is none
FirstWs(s) ==
    IF \E i \in 1..Len(s) : s[i] \in Whitespace
    THEN CHOOSE i \in 1..Len(s) :
            /\ s[i] \in Whitespace
            /\ \A j \in 1..(i - 1) : s[j] \notin Whitespace
    ELSE Len(s) + 1

\* str.split(): the maximal runs of non-whitespace characters
RECURSIVE SplitWords(_)
SplitWords(s) ==
    LET t == LStrip(s) IN
    IF t = <<>> THEN <<>>
    ELSE LET n == FirstWs(t) IN
         <<SubSeq(t, 1, n - 1)>> \o SplitWords(SubSeq(t, n, Len(t)))

\* sep.join(parts)
RECURSIVE Join(_, _)
Join(parts, sep) ==
    IF parts = <<>> THEN <<>>
    ELSE IF Len(parts) = 1 THEN parts[1]
    ELSE parts[1] \o sep \o Join(Tail(parts), sep)

\* s.startswith(p)
StartsWith(s, p) == Len(s) >= Len(p) /\ SubSeq(s, 1, Len(p)) = p

\* number of occurrences of the character c in s
RECURSIVE CountChar(_, _)
CountChar(s, c) ==
    IF s = <<>> THEN 0
    ELSE (IF Head(s) = c THEN 1 ELSE 0) + CountChar(Tail(s), c)

\* s is a prefix of t
IsPrefix(s, t) == Len(s) <= Len(t) /\ SubSeq(t, 1, Len(s)) = s

\* ---------------------------------------------------------------------
\* Text Normalizer
\* ---------------------------------------------------------------------
\* tools/cleaner.py: trim and collapse every run of whitespace to one space
clean_text(text) == Join(SplitWords(text), <<" ">>)

\* get_text_stats counting the spaces instead of the words
get_text_stats_spaces(text) ==
    LET t == Strip(text) IN
    IF t = <<>> THEN <<0, 0>>
    ELSE <<Len(t), CountChar(t, " ")>>

\* tools/text_stats.py
get_text_stats(text) ==
    LET t == Strip(text) IN
    IF t = <<>> THEN <<0, 0>>
    ELSE <<Len(t), Len(SplitWords(t))>>

\* ---------------------------------------------------------------------
\* Enrichment Gateway (tools/ai_tools.py)
\* ---------------------------------------------------------------------
AsciiLetters ==
    {"a", "b", "c", "d", "e", "f", "g", "h", "i", "j", "k", "l", "m",
     "n", "o", "p", "q", "r", "s", "t", "u", "v", "w", "x", "y", "z",
     "A", "B", "C", "D", "E", "F", "G", "H", "I", "J", "K", "L", "M",
     "N", "O", "P", "Q", "R", "S", "T", "U", "V", "W", "X", "Y", "Z"}

\* one Persian-script letter (U+0600..U+06FF) and one accented Latin letter
PersianLetter == "FA"
AccentedLetter == "EACUTE"
NonAsciiChars == {PersianLetter, AccentedLetter}

\* ch.isalpha()
IsAlpha(c) == c \in AsciiLetters \cup NonAsciiChars

IsAsciiLetter(c) == c \in AsciiLetters

\* ratio >= 0.6, in tenths
is_mostly_english(text) ==
    LET letters == SelectSeq(text, IsAlpha)
        english_letters == SelectSeq(letters, IsAsciiLetter)
    IN  IF letters = <<>> THEN FALSE
        ELSE 10 * Len(english_letters) >= 6 * Len(letters)

\* ".", "!", "?" and the Arabic question mark (U+061F)
ArabicQuestionMark == "AQM"
SentenceEnd == {".", "!", "?", ArabicQuestionMark}

\* re.split(r'(?<=[\.!\?\u061f])\s+', t): cut at every whitespace run that follows
\* a sentence-ending character
RECURSIVE SplitSentences(_)
SplitSentences(t) ==
    LET Cut(i) == i >= 2 /\ t[i] \in Whitespace /\ t[i - 1] \in SentenceEnd IN
    IF \E i \in 1..Len(t) : Cut(i)
    THEN LET i == CHOOSE k \in 1..Len(t) :
                     Cut(k) /\ \A j \in 1..(k - 1) : ~Cut(j)
             rest == LStrip(SubSeq(t, i, Len(t)))
         IN  <<SubSeq(t, 1, i - 1)>> \o SplitSentences(rest)
    ELSE <<t>>

\* s.rfind(" "): 0 stands for Python's -1 (indices here start at 1)
RFindSpace(s) ==
    IF \E i \in 1..Len(s) : s[i] = " "
    THEN CHOOSE i \in 1..Len(s) :
            s[i] = " " /\ \A j \in (i + 1)..Len(s) : s[j] # " "
    ELSE 0

SummaryMaxSentences == 3
SummaryMaxChars == 400

simple_summary(text0) ==
    LET text == Strip(text0) IN
    IF text = <<>> THEN <<>>
    ELSE IF Len(text) <= SummaryMaxChars THEN text
    ELSE LET sentences == SplitSentences(text)
             summary_sentences ==
                 SubSeq(sentences, 1,
                        IF Len(sentences) < SummaryMaxSentences
                        THEN Len(sentences) ELSE SummaryMaxSentences)
             summary == Strip(Join(summary_sentences, <<" ">>))
         IN  IF Len(summary) > SummaryMaxChars
             THEN LET cut == SubSeq(summary, 1, SummaryMaxChars)
                      last_space == RFindSpace(cut)
                      kept == IF last_space # 0
                              THEN SubSeq(cut, 1, last_space - 1)
                              ELSE cut
                  IN  kept \o <<".", ".", ".">>
             ELSE summary

\* What the external summarization model does when it is called:
\* it was not loaded (summarizer_en is None), it raises, or it answers.
ModelSummary == <<"s", "u", "m">>
SummarizerOutcomes == {"unavailable", "raises", "ok"}

SummaryMinChars == 20
MAX_INPUT_CHARS == 4000

\* summarize_run letting the exception of the external model escape
summarize_run_propagating(text0, outcome) ==
    LET stripped == Strip(text0)
        text == IF Len(stripped) > MAX_INPUT_CHARS
                THEN SubSeq(stripped, 1, MAX_INPUT_CHARS) ELSE stripped
    IN  IF Len(stripped) < SummaryMinChars
        THEN [value |-> stripped, raised |-> FALSE,
              model_calls |-> 0, fallback_calls |-> 0]
        ELSE IF outcome # "unavailable" /\ is_mostly_english(text)
        THEN IF outcome = "ok"
             THEN [value |-> ModelSummary, raised |-> FALSE,
                   model_calls |-> 1, fallback_calls |-> 0]
             ELSE [value |-> None, raised |-> TRUE,
                   model_calls |-> 1, fallback_calls |-> 0]
        ELSE [value |-> simple_summary(text), raised |-> FALSE,
              model_calls |-> 0, fallback_calls |-> 1]

\* summarize_run without the minimum length: short texts are summarized too
summarize_run_no_floor(text0, outcome) ==
    LET stripped == Strip(text0)
        text == IF Len(stripped) > MAX_INPUT_CHARS
                THEN SubSeq(stripped, 1, MAX_INPUT_CHARS) ELSE stripped
    IN  IF outcome # "unavailable" /\ is_mostly_english(text)
        THEN IF outcome = "ok"
             THEN [value |-> ModelSummary, raised |-> FALSE,
                   model_calls |-> 1, fallback_calls |-> 0]
             ELSE [value |-> simple_summary(text), raised |-> FALSE,
                   model_calls |-> 1, fallback_calls |-> 1]
        ELSE [value |-> simple_summary(text), raised |-> FALSE,
              model_calls |-> 0, fallback_calls |-> 1]

\* summarize_text with its calls counted: model_calls and fallback_calls are
\* the numbers of calls of summarizer_en and of simple_summary; raised tells
\* whether an exception leaves the function
summarize_run(text0, outcome) ==
    LET stripped == Strip(text0)
        text == IF Len(stripped) > MAX_INPUT_CHARS
                THEN SubSeq(stripped, 1, MAX_INPUT_CHARS) ELSE stripped
    IN  IF Len(stripped) < SummaryMinChars
        THEN [value |-> stripped, raised |-> FALSE,
              model_calls |-> 0, fallback_calls |-> 0]
        ELSE IF outcome # "unavailable" /\ is_mostly_english(text)
        THEN IF outcome = "ok"
             THEN [value |-> ModelSummary, raised |-> FALSE,
                   model_calls |-> 1, fallback_calls |-> 0]
             ELSE [value |-> simple_summary(text), raised |-> FALSE,
                   model_calls |-> 1, fallback_calls |-> 1]
        ELSE [value |-> simple_summary(text), raised |-> FALSE,
              model_calls |-> 0, fallback_calls |-> 1]

summarize_text(text, outcome) == summarize_run(text, outcome).value

\* What the translation provider does: detect() raises or names a language,
\* translate() raises or returns a text, which may be the empty text.
DetectOutcomes == {[raised |-> TRUE, value |-> <<>>],
                   [raised |-> FALSE, value |-> <<"e", "n">>]}
TranslateOutcomes == {[raised |-> TRUE, value |-> <<>>],
                      [raised |-> FALSE, value |-> <<"t", "r">>],
                      [raised |-> FALSE, value |-> <<>>]}

AutoLang == <<"a", "u", "t", "o">>

\* translate_text giving up the translation when the detection failed
translate_text_coupled(text0, target_lang, det, tr) ==
    LET text == Strip(text0) IN
    IF text = <<>>
    THEN [source_lang |-> None, target_lang |-> target_lang,
          original |-> <<>>, translated |-> <<>>,
          raised |-> FALSE, provider_calls |-> 0]
    ELSE [source_lang |-> IF det.raised THEN AutoLang ELSE det.value,
          target_lang |-> target_lang,
          original |-> text,
          translated |-> IF det.raised \/ tr.raised THEN text ELSE tr.value,
          raised |-> FALSE,
          provider_calls |-> IF det.raised THEN 1 ELSE 2]

\* raised tells whether an exception leaves the function; provider_calls
\* counts the calls of GoogleTranslator (detect and translate)
translate_text(text0, target_lang, det, tr) ==
    LET text == Strip(text0) IN
    IF text = <<>>
    THEN [source_lang |-> None, target_lang |-> target_lang,
          original |-> <<>>, translated |-> <<>>,
          raised |-> FALSE, provider_calls |-> 0]
    ELSE [source_lang |-> IF det.raised THEN AutoLang ELSE det.value,
          target_lang |-> target_lang,
          original |-> text,
          translated |-> IF tr.raised THEN text ELSE tr.value,
          raised |-> FALSE,
          provider_calls |-> 2]

\* ---------------------------------------------------------------------
\* More str methods
\* ---------------------------------------------------------------------
LowerOf ==
    "A" :> "a" @@ "B" :> "b" @@ "C" :> "c" @@ "D" :> "d" @@ "E" :> "e" @@ "F" :> "f" @@
    "G" :> "g" @@ "H" :> "h" @@ "I" :> "i" @@ "J" :> "j" @@ "K" :> "k" @@ "L" :> "l" @@
    "M" :> "m" @@ "N" :> "n" @@ "O" :> "o" @@ "P" :> "p" @@ "Q" :> "q" @@ "R" :> "r" @@
    "S" :> "s" @@ "T" :> "t" @@ "U" :> "u" @@ "V" :> "v" @@ "W" :> "w" @@ "X" :> "x" @@
    "Y" :> "y" @@ "Z" :> "z"

\* s.lower()
Lower(s) == [i \in 1..Len(s) |-> IF s[i] \in DOMAIN LowerOf THEN LowerOf[s[i]] ELSE s[i]]

\* s.endswith(p)
EndsWith(s, p) ==
    Len(s) >= Len(p) /\ SubSeq(s, Len(s) - Len(p) + 1, Len(s)) = p

\* ---------------------------------------------------------------------
\* Report/Log Sink (tools/report_generator.py, tools/logger.py,
\* tools/json_logger.py)
\* ---------------------------------------------------------------------
Exts == {"txt", "json", "csv"}

\* reports/report_<timestamp>.<ext>, the timestamp in whole seconds
ReportPath(ts, ext) == [ts |-> ts, ext |-> ext]
ReportPaths == [ts : 0..MaxClock, ext : Exts]
NoPath == [ts |-> -1, ext |-> ""]
NoFile == [format |-> "absent"]

\* the four lines save_txt writes
TxtContent(cleaned, chars, words, setup, punchline) ==
    [format |-> "txt", Cleaned |-> cleaned, Characters |-> chars,
     Words |-> words, Joke |-> <<setup, punchline>>]

\* the object save_json dumps
JsonContent(cleaned, chars, words, setup, punchline) ==
    [format |-> "json", cleaned |-> cleaned, characters |-> chars,
     words |-> words, joke_setup |-> setup, joke_punchline |-> punchline]

\* the header row and the data row save_csv writes
CsvContent(cleaned, chars, words, setup, punchline) ==
    [format |-> "csv",
     header |-> <<"cleaned", "characters", "words", "joke_setup", "joke_punchline">>,
     row |-> <<cleaned, chars, words, setup, punchline>>]

\* what a reader of a report file finds as cleaned text, characters and words
Recorded(c) ==
    CASE c.format = "txt" ->
            [cleaned |-> c.Cleaned, characters |-> c.Characters, words |-> c.Words]
      [] c.format = "json" ->
            [cleaned |-> c.cleaned, characters |-> c.characters, words |-> c.words]
      [] c.format = "csv" ->
            [cleaned |-> c.row[1], characters |-> c.row[2], words |-> c.row[3]]

\* the text log_request appends to logs/requests.log
LogLine(time, raw_text, cleaned_text) ==
    <<"[", ToString(time), "] RAW: ">> \o raw_text
        \o <<" | CLEANED: ">> \o cleaned_text \o <<"\n">>

\* json.dumps of a string: control characters, quotes and non-ASCII escaped
RECURSIVE JsonEscape(_)
JsonEscape(s) ==
    IF s = <<>> THEN <<>>
    ELSE LET c == Head(s)
             e == CASE c = "\n" -> <<"\\", "n">>
                    [] c = "\t" -> <<"\\", "t">>
                    [] c = "\"" -> <<"\\", "\"">>
                    [] c = "\\" -> <<"\\", "\\">>
                    [] c \in NonAsciiChars -> <<"\\", "u", c>>
                    [] OTHER -> <<c>>
         IN  e \o JsonEscape(Tail(s))

\* the text log_json appends to logs/requests.jsonl
JsonLine(time, raw_text, cleaned_text) ==
    <<"{\"time\": \"", ToString(time), "\", \"raw\": \"">> \o JsonEscape(raw_text)
        \o <<"\", \"cleaned\": \"">> \o JsonEscape(cleaned_text) \o <<"\"}", "\n">>

\* number of lines of a log file
Lines(log) == CountChar(log, "\n")

\* tools/joke_api.py: the joke service answers or the fetch raises
JokeOutcomes == {[raised |-> TRUE, setup |-> "", punchline |-> ""],
                 [raised |-> FALSE, setup |-> "Why?", punchline |-> "Because."]}

\* ---------------------------------------------------------------------
\* Keyword/Attribute Extractor (tools/job_analyzer.py, api.py)
\* ---------------------------------------------------------------------
\* kw in text
Contains(text, kw) ==
    \E i \in 1..(Len(text) - Len(kw) + 1) : SubSeq(text, i, i + Len(kw) - 1) = kw

\* code points of the characters of the keyword lists
CharRank ==
    " " :> 32 @@ "a" :> 97 @@ "b" :> 98 @@ "c" :> 99 @@ "d" :> 100 @@ "e" :> 101 @@
    "f" :> 102 @@ "g" :> 103 @@ "h" :> 104 @@ "i" :> 105 @@ "j" :> 106 @@ "k" :> 107 @@
    "l" :> 108 @@ "m" :> 109 @@ "n" :> 110 @@ "o" :> 111 @@ "p" :> 112 @@ "q" :> 113 @@
    "r" :> 114 @@ "s" :> 115 @@ "t" :> 116 @@ "u" :> 117 @@ "v" :> 118 @@ "w" :> 119 @@
    "x" :> 120 @@ "y" :> 121 @@ "z" :> 122

\* a < b for Python strings
RECURSIVE StrLess(_, _)
StrLess(a, b) ==
    IF b = <<>> THEN FALSE
    ELSE IF a = <<>> THEN TRUE
    ELSE IF Head(a) = Head(b) THEN StrLess(Tail(a), Tail(b))
    ELSE CharRank[Head(a)] < CharRank[Head(b)]

\* sorted(S) for a set S of strings
RECURSIVE Sorted(_)
Sorted(S) ==
    IF S = {} THEN <<>>
    ELSE LET m == CHOOSE x \in S : \A y \in S : x = y \/ StrLess(x, y)
         IN  <<m>> \o Sorted(S \ {m})

Range(f) == {f[i] : i \in DOMAIN f}

SKILL_KEYWORDS ==
    <<<<"p", "y", "t", "h", "o", "n">>,
     <<"j", "a", "v", "a">>,
     <<"j", "a", "v", "a", "s", "c", "r", "i", "p", "t">>,
     <<"r", "e", "a", "c", "t">>,
     <<"v", "u", "e">>,
     <<"d", "o", "c", "k", "e", "r">>,
     <<"k", "u", "b", "e", "r", "n", "e", "t", "e", "s">>,
     <<"s", "q", "l">>,
     <<"n", "o", "s", "q", "l">>,
     <<"l", "i", "n", "u", "x">>,
     <<"m", "a", "c", "h", "i", "n", "e", " ", "l", "e", "a", "r", "n", "i", "n", "g">>,
     <<"d", "e", "e", "p", " ", "l", "e", "a", "r", "n", "i", "n", "g">>,
     <<"d", "a", "t", "a", " ", "a", "n", "a", "l", "y", "s", "i", "s">>,
     <<"a", "p", "i">>,
     <<"c", "l", "o", "u", "d">>,
     <<"a", "w", "s">>,
     <<"a", "z", "u", "r", "e">>,
     <<"f", "a", "s", "t", "a", "p", "i">>,
     <<"f", "l", "a", "s", "k">>,
     <<"d", "j", "a", "n", "g", "o">>>>

LANGS ==
    <<<<"e", "n", "g", "l", "i", "s", "h">>,
     <<"g", "e", "r", "m", "a", "n">>,
     <<"f", "r", "e", "n", "c", "h">>,
     <<"a", "r", "a", "b", "i", "c">>,
     <<"p", "e", "r", "s", "i", "a", "n">>,
     <<"n", "o", "r", "w", "e", "g", "i", "a", "n">>>>

TECH ==
    <<<<"a", "w", "s">>,
     <<"g", "c", "p">>,
     <<"a", "z", "u", "r", "e">>,
     <<"d", "o", "c", "k", "e", "r">>,
     <<"k", "u", "b", "e", "r", "n", "e", "t", "e", "s">>,
     <<"t", "e", "n", "s", "o", "r", "f", "l", "o", "w">>,
     <<"p", "y", "t", "o", "r", "c", "h">>,
     <<"f", "a", "s", "t", "a", "p", "i">>,
     <<"f", "l", "a", "s", "k">>,
     <<"d", "j", "a", "n", "g", "o">>,
     <<"p", "o", "s", "t", "g", "r", "e", "s">>,
     <<"m", "y", "s", "q", "l">>,
     <<"m", "o", "n", "g", "o", "d", "b">>,
     <<"r", "e", "d", "i", "s">>>>

\* the keywords of the list kws that occur in the lowercased text, in list order
Found(kws, text) ==
    LET lower == Lower(text) IN SelectSeq(kws, LAMBDA kw : Contains(lower, kw))

\* find_skills returning the matches in the order of the scan
find_skills_unsorted(text) == Found(SKILL_KEYWORDS, text)

find_skills(text) == Sorted(Range(Found(SKILL_KEYWORDS, text)))

\* find_languages ending with sorted(set(found)) as its two siblings do
find_languages_sorted(text) == Sorted(Range(Found(LANGS, text)))

find_languages(text) == Found(LANGS, text)

find_technologies(text) == Sorted(Range(Found(TECH, text)))

FitEmpty == 20
FitBase == 40
FitPerSkill == 7
FitCap == 95

\* estimate_job_fit without the cap
estimate_job_fit_uncapped(skills) ==
    IF skills = <<>> THEN FitEmpty
    ELSE FitBase + Len(skills) * FitPerSkill

estimate_job_fit(skills) ==
    IF skills = <<>> THEN FitEmpty
    ELSE LET base == FitBase
             bonus == Len(skills) * FitPerSkill
             score == base + bonus
         IN  IF score < FitCap THEN score ELSE FitCap

stopwords ==
    {<<"t", "h", "e">>,
     <<"a", "n", "d">>,
     <<"f", "o", "r">>,
     <<"w", "i", "t", "h">>,
     <<"t", "h", "a", "t">>,
     <<"t", "h", "i", "s">>,
     <<"f", "r", "o", "m">>,
     <<"h", "a", "v", "e">>,
     <<"h", "a", "s">>,
     <<"a", "r", "e">>,
     <<"w", "a", "s">>,
     <<"w", "e", "r", "e">>,
     <<"w", "i", "l", "l">>,
     <<"w", "o", "u", "l", "d">>,
     <<"c", "a", "n">>,
     <<"c", "o", "u", "l", "d">>,
     <<"s", "h", "o", "u", "l", "d">>,
     <<"a", "b", "o", "u", "t">>,
     <<"i", "n", "t", "o">>,
     <<"o", "n", "t", "o">>,
     <<"o", "v", "e", "r">>,
     <<"u", "n", "d", "e", "r">>,
     <<"t", "h", "a", "n">>,
     <<"t", "h", "e", "n">>,
     <<"t", "h", "e", "m">>,
     <<"t", "h", "e", "y">>,
     <<"y", "o", "u">>,
     <<"y", "o", "u", "r">>,
     <<"y", "o", "u", "r", "s">>,
     <<"o", "u", "r">>,
     <<"o", "u", "r", "s">>,
     <<"h", "i", "s">>,
     <<"h", "e", "r">>,
     <<"i", "t", "s">>,
     <<"n", "o", "t">>,
     <<"b", "u", "t">>,
     <<"a", "l", "l">>,
     <<"a", "n", "y">>,
     <<"s", "o", "m", "e">>,
     <<"m", "o", "r", "e">>,
     <<"m", "o", "s", "t">>,
     <<"m", "a", "n", "y">>,
     <<"s", "u", "c", "h">>,
     <<"v", "e", "r", "y">>,
     <<"a", "l", "s", "o">>,
     <<"j", "u", "s", "t">>,
     <<"l", "i", "k", "e">>,
     <<"o", "n", "e">>,
     <<"t", "w", "o">>,
     <<"t", "h", "r", "e", "e">>}

\* length of the run of ASCII letters s starts with
RECURSIVE RunLen(_)
RunLen(s) ==
    IF s # <<>> /\ Head(s) \in AsciiLetters THEN 1 + RunLen(Tail(s)) ELSE 0

MinTokenLen == 3

\* re.findall(r"[a-zA-Z]{3,}", s): the maximal runs of ASCII letters of
\* length 3 or more
RECURSIVE FindTokens(_)
FindTokens(s) ==
    IF s = <<>> THEN <<>>
    ELSE LET n == RunLen(s) IN
         IF n = 0 THEN FindTokens(Tail(s))
         ELSE (IF n >= MinTokenLen THEN <<SubSeq(s, 1, n)>> ELSE <<>>)
                 \o FindTokens(SubSeq(s, n + 1, Len(s)))

\* number of occurrences of x in the sequence s
Occurrences(s, x) == Cardinality({i \in 1..Len(s) : s[i] = x})

\* the distinct elements of s in the order of their first occurrence
\* (the key order of Counter(s))
FirstSeen(s) ==
    SelectSeq([i \in 1..Len(s) |->
                  IF \E j \in 1..(i - 1) : s[j] = s[i] THEN None ELSE s[i]],
              LAMBDA x : x # None)

\* Counter(s).most_common(n): by count, highest first, equal counts in
\* first-seen order
RECURSIVE MostCommon(_, _, _)
MostCommon(keys, s, n) ==
    IF n <= 0 \/ keys = <<>> THEN <<>>
    ELSE LET i == CHOOSE k \in 1..Len(keys) :
                     /\ \A j \in 1..Len(keys) :
                           Occurrences(s, keys[j]) <= Occurrences(s, keys[k])
                     /\ \A j \in 1..(k - 1) :
                           Occurrences(s, keys[j]) < Occurrences(s, keys[k])
             rest == SubSeq(keys, 1, i - 1) \o SubSeq(keys, i + 1, Len(keys))
         IN  <<keys[i]>> \o MostCommon(rest, s, n - 1)

\* extract_keywords_simple keeping the stopwords
extract_keywords_simple_unfiltered(text, top_n) ==
    LET tokens == FindTokens(Lower(text))
    IN  MostCommon(FirstSeen(tokens), tokens, top_n)

extract_keywords_simple(text, top_n) ==
    LET tokens == FindTokens(Lower(text))
        filtered == SelectSeq(tokens, LAMBDA t : t \notin stopwords)
    IN  MostCommon(FirstSeen(filtered), filtered, top_n)

DefaultTopN == 10

\* ---------------------------------------------------------------------
\* Request inputs
\* ---------------------------------------------------------------------
\* "ok", " ok\n", "abc", "ab\ncd"
ProcessTextInputs == {<<"o", "k">>, <<" ", "o", "k", "\n">>,
                      <<"a", "b", "c">>, <<"a", "b", "\n", "c", "d">>}
\* "no", "see  it"
AiReportInputs == {<<"n", "o">>, <<"s", "e", "e", " ", " ", "i", "t">>}
TranslateTargets == {None, <<>>, <<"d", "e">>}
\* "", "up\tfile"
UploadContents == {<<>>, <<"u", "p", "\t", "f", "i", "l", "e">>}
\* "R.PDF", "r.txt"
UploadNames == {<<"R", ".", "P", "D", "F">>, <<"r", ".", "t", "x", "t">>}
\* page.extract_text() of every page: a text, or None
PdfDocuments == {<<>>, <<<<"p", "d", "f", " ", "t", "e", "x", "t">>, None>>}

\* ---------------------------------------------------------------------
\* State
\* ---------------------------------------------------------------------
VARIABLES
    now,             \* the wall clock, in whole seconds
    files,           \* the reports directory: report path -> content
    requests_log,    \* the characters of logs/requests.log
    requests_jsonl,  \* the characters of logs/requests.jsonl
    data_files,      \* the CSV files of the data directory, in creation order
    req,             \* worker -> the request it handles and the handler's locals
    served           \* number of requests accepted so far

vars == <<now, files, requests_log, requests_jsonl, data_files, req, served>>

\* a worker without a request
IdleReq ==
    [pc |-> "idle", ep |-> "", text |-> <<>>, filename |-> <<>>, url |-> <<>>,
     translate_to |-> None, cleaned |-> <<>>, chars |-> 0, words |-> 0,
     summary |-> None, translated |-> None, setup |-> "", punchline |-> "",
     joke_raised |-> FALSE, raised |-> "",
     scrape_raised |-> FALSE, extracted |-> None,
     txt_path |-> NoPath, json_path |-> NoPath, csv_path |-> NoPath,
     status |-> 0, detail |-> <<>>,
     body |-> [kind |-> "none"],
     calls |-> [scrape |-> 0, summarize |-> 0, translate |-> 0, model |-> 0]]

Init ==
    /\ now = 0
    /\ files = [p \in ReportPaths |-> NoFile]
    /\ requests_log = <<>>
    /\ requests_jsonl = <<>>
    /\ data_files = <<>>
    /\ req = [w \in Workers |-> IdleReq]
    /\ served = 0

\* raise HTTPException(status_code, detail), or an unhandled exception (500)
Fail(r, status, detail) ==
    [r EXCEPT !.pc = "done", !.status = status, !.detail = detail]

InternalError == <<"Internal Server Error">>

\* the next request goes to the first free worker
Accept(w) ==
    /\ req[w].pc = "idle"
    /\ \A v \in Workers : v < w => req[v].pc # "idle"
    /\ served < MaxRequests
    /\ served' = served + 1

\* ---------------------------------------------------------------------
\* The endpoints that persist reports (api.py)
\* ---------------------------------------------------------------------
\* process_text measuring the raw text instead of the trimmed text
process_text_untrimmed(w) ==
    /\ Accept(w)
    /\ \E raw_text \in ProcessTextInputs :
          LET r == [IdleReq EXCEPT !.ep = "/process_text", !.text = raw_text] IN
          req' = [req EXCEPT ![w] =
                    IF Len(raw_text) < 3
                    THEN Fail(r, 400, <<"Text is too short.">>)
                    ELSE [r EXCEPT !.pc = "log_request",
                                   !.cleaned = clean_text(raw_text)]]
    /\ UNCHANGED <<now, files, requests_log, requests_jsonl, data_files>>

\* POST /process_text up to clean_text
process_text(w) ==
    /\ Accept(w)
    /\ \E raw_text \in ProcessTextInputs :
          LET r == [IdleReq EXCEPT !.ep = "/process_text", !.text = raw_text] IN
          req' = [req EXCEPT ![w] =
                    IF Len(Strip(raw_text)) < 3
                    THEN Fail(r, 400, <<"Text is too short.">>)
                    ELSE [r EXCEPT !.pc = "log_request",
                                   !.cleaned = clean_text(raw_text)]]
    /\ UNCHANGED <<now, files, requests_log, requests_jsonl, data_files>>

\* log_request(raw_text, cleaned): one append to logs/requests.log
log_request(w) ==
    /\ req[w].pc = "log_request"
    /\ \E ok \in BOOLEAN :
          IF ok
          THEN /\ requests_log' =
                    requests_log \o LogLine(now, req[w].text, req[w].cleaned)
               /\ req' = [req EXCEPT ![w].pc = "log_json"]
          ELSE /\ req' = [req EXCEPT ![w] = Fail(@, 500, InternalError)]
               /\ UNCHANGED requests_log
    /\ UNCHANGED <<now, files, requests_jsonl, data_files, served>>

\* log_json(raw_text, cleaned): one append to logs/requests.jsonl, then the
\* handler computes the statistics
log_json(w) ==
    /\ req[w].pc = "log_json"
    /\ \E ok \in BOOLEAN :
          IF ok
          THEN /\ requests_jsonl' =
                    requests_jsonl \o JsonLine(now, req[w].text, req[w].cleaned)
               /\ req' = [req EXCEPT ![w].pc = "get_joke",
                                     ![w].chars = get_text_stats(req[w].cleaned)[1],
                                     ![w].words = get_text_stats(req[w].cleaned)[2]]
          ELSE /\ req' = [req EXCEPT ![w] = Fail(@, 500, InternalError)]
               /\ UNCHANGED requests_jsonl
    /\ UNCHANGED <<now, files, requests_log, data_files, served>>

\* POST /upload_file up to the statistics
upload_file(w) ==
    /\ Accept(w)
    /\ \E decodes \in BOOLEAN, content \in UploadContents :
          LET r == [IdleReq EXCEPT !.ep = "/upload_file"] IN
          req' = [req EXCEPT ![w] =
                    IF ~decodes
                    THEN Fail(r, 500, InternalError)
                    ELSE LET cleaned == clean_text(content) IN
                         [r EXCEPT !.pc = "get_joke",
                                   !.text = content,
                                   !.cleaned = cleaned,
                                   !.chars = get_text_stats(cleaned)[1],
                                   !.words = get_text_stats(cleaned)[2]]]
    /\ UNCHANGED <<now, files, requests_log, requests_jsonl, data_files>>

\* the text /upload_pdf builds from the pages
RECURSIVE PdfText(_)
PdfText(pages) ==
    IF pages = <<>> THEN <<>>
    ELSE (IF Head(pages) = None THEN <<>> ELSE Head(pages)) \o <<"\n">>
            \o PdfText(Tail(pages))

\* POST /upload_pdf up to the statistics
upload_pdf(w) ==
    /\ Accept(w)
    /\ \E name \in UploadNames, readable \in BOOLEAN, pages \in PdfDocuments :
          LET r == [IdleReq EXCEPT !.ep = "/upload_pdf", !.filename = name] IN
          req' = [req EXCEPT ![w] =
                    IF ~EndsWith(Lower(name), <<".", "p", "d", "f">>)
                    THEN Fail(r, 400, <<"File must be a PDF.">>)
                    ELSE IF ~readable
                    THEN Fail(r, 500, InternalError)
                    ELSE LET text == PdfText(pages)
                             cleaned == clean_text(text)
                         IN  [r EXCEPT !.pc = "get_joke",
                                       !.text = text,
                                       !.cleaned = cleaned,
                                       !.chars = get_text_stats(cleaned)[1],
                                       !.words = get_text_stats(cleaned)[2]]]
    /\ UNCHANGED <<now, files, requests_log, requests_jsonl, data_files>>

\* POST /ai_report up to the summary
ai_report(w) ==
    /\ Accept(w)
    /\ \E raw_text \in AiReportInputs, to \in TranslateTargets,
          so \in SummarizerOutcomes :
          LET r == [IdleReq EXCEPT !.ep = "/ai_report", !.text = raw_text,
                                   !.translate_to = to]
          IN
          req' = [req EXCEPT ![w] =
                    IF Len(Strip(raw_text)) < 3
                    THEN Fail(r, 400, <<"Text is too short.">>)
                    ELSE LET cleaned == clean_text(raw_text) IN
                         [r EXCEPT !.pc = "get_joke",
                                   !.cleaned = cleaned,
                                   !.chars = get_text_stats(cleaned)[1],
                                   !.words = get_text_stats(cleaned)[2],
                                   !.summary = summarize_text(cleaned, so),
                                   !.calls.summarize = 1]]
    /\ UNCHANGED <<now, files, requests_log, requests_jsonl, data_files>>

\* try: setup, punchline = get_joke()  except Exception: "", ""
fetch_joke(w) ==
    /\ req[w].pc = "get_joke"
    /\ \E joke \in JokeOutcomes :
          req' = [req EXCEPT ![w].setup = IF joke.raised THEN "" ELSE joke.setup,
                             ![w].punchline =
                                 IF joke.raised THEN "" ELSE joke.punchline,
                             ![w].joke_raised = joke.raised,
                             ![w].pc = IF req[w].ep = "/ai_report"
                                       THEN "translate" ELSE "save_txt"]
    /\ UNCHANGED <<now, files, requests_log, requests_jsonl, data_files, served>>

\* /ai_report: if payload.translate_to: translated_text = translate_text(...)
ai_report_translate(w) ==
    /\ req[w].pc = "translate"
    /\ \E det \in DetectOutcomes, tr \in TranslateOutcomes :
          req' = [req EXCEPT
                    ![w].pc = "save_txt",
                    ![w].translated =
                        IF req[w].translate_to \notin {None, <<>>}
                        THEN translate_text(req[w].cleaned, req[w].translate_to,
                                            det, tr).translated
                        ELSE None,
                    ![w].calls.translate =
                        IF req[w].translate_to \notin {None, <<>>} THEN 1 ELSE 0]
    /\ UNCHANGED <<now, files, requests_log, requests_jsonl, data_files, served>>

\* one report file written under the name the clock gives, or the write fails
WriteReport(w, ext, content, next_pc) ==
    \E ok \in BOOLEAN :
        IF ok
        THEN LET filename == ReportPath(now, ext) IN
             /\ files' = [files EXCEPT ![filename] = content]
             /\ req' = [req EXCEPT
                          ![w].pc = next_pc,
                          ![w].txt_path = IF ext = "txt" THEN filename ELSE @,
                          ![w].json_path = IF ext = "json" THEN filename ELSE @,
                          ![w].csv_path = IF ext = "csv" THEN filename ELSE @,
                          ![w].status = IF next_pc = "done" THEN 200 ELSE @]
        ELSE /\ req' = [req EXCEPT ![w] = Fail(@, 500, InternalError)]
             /\ UNCHANGED files

save_txt(w) ==
    /\ req[w].pc = "save_txt"
    /\ WriteReport(w, "txt",
                   TxtContent(req[w].cleaned, req[w].chars, req[w].words,
                              req[w].setup, req[w].punchline),
                   "save_json")
    /\ UNCHANGED <<now, requests_log, requests_jsonl, data_files, served>>

save_json(w) ==
    /\ req[w].pc = "save_json"
    /\ WriteReport(w, "json",
                   JsonContent(req[w].cleaned, req[w].chars, req[w].words,
                               req[w].setup, req[w].punchline),
                   "save_csv")
    /\ UNCHANGED <<now, requests_log, requests_jsonl, data_files, served>>

\* the last write; the handler returns its response right after it
save_csv(w) ==
    /\ req[w].pc = "save_csv"
    /\ WriteReport(w, "csv",
                   CsvContent(req[w].cleaned, req[w].chars, req[w].words,
                              req[w].setup, req[w].punchline),
                   "done")
    /\ UNCHANGED <<now, requests_log, requests_jsonl, data_files, served>>

\* the response has been sent: the worker is free again
respond(w) ==
    /\ req[w].pc = "done"
    /\ req' = [req EXCEPT ![w] = IdleReq]
    /\ UNCHANGED <<now, files, requests_log, requests_jsonl, data_files, served>>

\* a second passes
Tick ==
    /\ now < MaxClock
    /\ now' = now + 1
    /\ UNCHANGED <<files, requests_log, requests_jsonl, data_files, req, served>>

Next ==
    \/ Tick
    \/ \E w \in Workers :
          \/ process_text(w)
          \/ log_request(w)
          \/ log_json(w)
          \/ upload_file(w)
          \/ upload_pdf(w)
          \/ ai_report(w)
          \/ fetch_joke(w)
          \/ ai_report_translate(w)
          \/ save_txt(w)
          \/ save_json(w)
          \/ save_csv(w)
          \/ respond(w)

\* the server with its workers handling the persisting endpoints concurrently
Spec == Init /\ [][Next]_vars

\* ---------------------------------------------------------------------
\* Language-aware sentiment (tools/sentiment.py)
\* ---------------------------------------------------------------------
guess_language(text) ==
    IF \E i \in 1..Len(text) : text[i] = PersianLetter THEN "fa"
    ELSE IF \A i \in 1..Len(text) : text[i] \notin NonAsciiChars THEN "en"
    ELSE "unknown"

\* What the sentiment model does when it is called: it raises, or it
\* answers with a label and a score (in hundredths).
SentimentModelOutcomes ==
    {[raised |-> "ValueError", message |-> "bad input", label |-> "", score |-> 0],
     [raised |-> "RuntimeError", message |-> "model crashed", label |-> "", score |-> 0],
     [raised |-> "", message |-> "", label |-> "POSITIVE", score |-> 99],
     [raised |-> "", message |-> "", label |-> "NEGATIVE", score |-> 75]}

ModelInputChars == 512

MinSentimentChars == 3

\* english_text[:512]
Truncate(s, n) == IF Len(s) > n THEN SubSeq(s, 1, n) ELSE s

\* analyze_sentiment translating whatever the guessed language is
analyze_sentiment_translating(text, tr, model) ==
    IF text = <<>> \/ Len(Strip(text)) < MinSentimentChars
    THEN [raised |-> "ValueError",
          message |-> "Text is too short for sentiment analysis.",
          value |-> [kind |-> "none"], translate_calls |-> 0, model_calls |-> 0]
    ELSE LET lang == guess_language(text)
             translated_text == IF ~tr.raised THEN tr.value ELSE None
         IN  [raised |-> model.raised,
              message |-> model.message,
              value |-> IF model.raised # "" THEN [kind |-> "none"]
                        ELSE [kind |-> "sentiment",
                              language |-> lang,
                              label |-> model.label,
                              score |-> model.score,
                              translated_text |-> translated_text],
              translate_calls |-> 1,
              model_calls |-> 1]

\* analyze_sentiment of tools/sentiment.py.  raised names the exception that
\* leaves the function ("" when it returns); translate_calls and model_calls
\* count the calls of the translation provider and of the sentiment model.
analyze_sentiment(text, tr, model) ==
    IF text = <<>> \/ Len(Strip(text)) < MinSentimentChars
    THEN [raised |-> "ValueError",
          message |-> "Text is too short for sentiment analysis.",
          model_input |-> <<>>,
          value |-> [kind |-> "none"], translate_calls |-> 0, model_calls |-> 0]
    ELSE LET lang == guess_language(text)
             translated_text ==
                 IF lang # "en" /\ ~tr.raised THEN tr.value ELSE None
             english_text ==
                 IF lang # "en" /\ ~tr.raised THEN tr.value ELSE text
             input == Truncate(english_text, ModelInputChars)
         IN  [raised |-> model.raised,
              message |-> model.message,
              model_input |-> input,
              value |-> IF model.raised # "" THEN [kind |-> "none"]
                        ELSE [kind |-> "sentiment",
                              language |-> lang,
                              label |-> model.label,
                              score |-> model.score,
                              translated_text |-> translated_text],
              translate_calls |-> IF lang # "en" THEN 1 ELSE 0,
              model_calls |-> 1]

\* ---------------------------------------------------------------------
\* Content Acquisition Gateway (tools/scraper.py, tools/scraper_playwright.py,
\* tools/job_analyzer.py)
\* ---------------------------------------------------------------------
\* '': 0 characters, 0 trimmed
Page0 ==
    <<>>

\* 'tiny page': 9 characters, 9 trimmed
Page9 ==
    <<"t", "i", "n", "y", " ", "p", "a", "g", "e">>

\* 'fifteen chars o': 15 characters, 15 trimmed
Page15 ==
    <<"f", "i", "f", "t", "e", "e", "n", " ", "c", "h", "a", "r",
      "s", " ", "o">>

\* 'a page of exactly thirty chars': 30 characters, 30 trimmed
Page30 ==
    <<"a", " ", "p", "a", "g", "e", " ", "o", "f", " ", "e", "x",
      "a", "c", "t", "l", "y", " ", "t", "h", "i", "r", "t", "y",
      " ", "c", "h", "a", "r", "s">>

\* ' python and docker jobs for english speakers here.\n\n': 52 characters, 49 trimmed
Page49 ==
    <<" ", "p", "y", "t", "h", "o", "n", " ", "a", "n", "d", " ",
      "d", "o", "c", "k", "e", "r", " ", "j", "o", "b", "s", " ",
      "f", "o", "r", " ", "e", "n", "g", "l", "i", "s", "h", " ",
      "s", "p", "e", "a", "k", "e", "r", "s", " ", "h", "e", "r",
      "e", ".", "\n", "\n">>

\* 'java and sql roles. german or french. java is key.': 50 characters, 50 trimmed
Page50 ==
    <<"j", "a", "v", "a", " ", "a", "n", "d", " ", "s", "q", "l",
      " ", "r", "o", "l", "e", "s", ".", " ", "g", "e", "r", "m",
      "a", "n", " ", "o", "r", " ", "f", "r", "e", "n", "c", "h",
      ".", " ", "j", "a", "v", "a", " ", "i", "s", " ", "k", "e",
      "y", ".">>

\* 'Senior Python role\nPython with Docker on AWS; English, German.': 62 characters, 62 trimmed
Page62 ==
    <<"S", "e", "n", "i", "o", "r", " ", "P", "y", "t", "h", "o",
      "n", " ", "r", "o", "l", "e", "\n", "P", "y", "t", "h", "o",
      "n", " ", "w", "i", "t", "h", " ", "D", "o", "c", "k", "e",
      "r", " ", "o", "n", " ", "A", "W", "S", ";", " ", "E", "n",
      "g", "l", "i", "s", "h", ",", " ", "G", "e", "r", "m", "a",
      "n", ".">>

\* What a page fetch does: it raises with a message, or it delivers the
\* text of the page.
PageTexts == {Page0, Page9, Page15, Page30, Page49, Page50, Page62}
FetchOutcomes ==
    {[raised |-> TRUE, message |-> "timeout", text |-> <<>>]}
        \cup {[raised |-> FALSE, message |-> "", text |-> t] : t \in PageTexts}

\* What BeautifulSoup finds in the fetched HTML: the title and the texts of
\* the h1, h2, h3, p and li tags
ParsedPages ==
    {[title |-> <<>>, tags |-> <<>>],
     [title |-> Page9, tags |-> <<Page15, Page30>>],
     [title |-> Page9, tags |-> <<Page50, Page30>>]}
HtmlOutcomes ==
    {[raised |-> TRUE, message |-> "404 Client Error", page |-> [title |-> <<>>, tags |-> <<>>]]}
        \cup {[raised |-> FALSE, message |-> "", page |-> pg] : pg \in ParsedPages}

MinTagChars == 30

\* extract_main_text: the title, then every tag text longer than 30
\* characters, joined by newlines
extract_main_text(page) ==
    LET parts == (IF page.title # <<>> THEN <<page.title>> ELSE <<>>)
                    \o SelectSeq(page.tags,
                                 LAMBDA text : text # <<>> /\ Len(text) > MinTagChars)
    IN  Join(parts, <<"\n">>)

\* urlparse(url).netloc: what stands between "://" and the next "/"
get_domain(url) ==
    IF \E i \in 1..(Len(url) - 2) : SubSeq(url, i, i + 2) = <<":", "/", "/">>
    THEN LET i == CHOOSE k \in 1..(Len(url) - 2) :
                     /\ SubSeq(url, k, k + 2) = <<":", "/", "/">>
                     /\ \A j \in 1..(k - 1) : SubSeq(url, j, j + 2) # <<":", "/", "/">>
             rest == SubSeq(url, i + 3, Len(url))
             stop == IF \E j \in 1..Len(rest) : rest[j] = "/"
                     THEN CHOOSE j \in 1..Len(rest) :
                             rest[j] = "/" /\ \A k \in 1..(j - 1) : rest[k] # "/"
                     ELSE Len(rest) + 1
         IN  SubSeq(rest, 1, stop - 1)
    ELSE <<>>

\* scrape_url swallowing the fetch error and returning an empty text
scrape_url_swallowing(url, html) ==
    [raised |-> FALSE, message |-> "",
     extracted_text |-> IF html.raised THEN <<>> ELSE extract_main_text(html.page),
     domain |-> get_domain(url)]

\* scrape_url of tools/scraper.py: fetch_html raises, or the record with the
\* extracted text and the domain
scrape_url(url, html) ==
    IF html.raised
    THEN [raised |-> TRUE, message |-> html.message,
          extracted_text |-> <<>>, domain |-> <<>>]
    ELSE [raised |-> FALSE, message |-> "",
          extracted_text |-> extract_main_text(html.page),
          domain |-> get_domain(url)]

\* re.sub(r"\s+", " ", text)
RECURSIVE CollapseWs(_)
CollapseWs(s) ==
    IF s = <<>> THEN <<>>
    ELSE IF Head(s) \in Whitespace
    THEN <<" ">> \o CollapseWs(LStrip(s))
    ELSE <<Head(s)>> \o CollapseWs(Tail(s))

RECURSIVE ReplaceChar(_, _, _)
ReplaceChar(s, old, new) ==
    IF s = <<>> THEN <<>>
    ELSE <<IF Head(s) = old THEN new ELSE Head(s)>> \o ReplaceChar(Tail(s), old, new)

clean_job_text(text) ==
    Strip(ReplaceChar(ReplaceChar(CollapseWs(text), "\n", " "), "\t", " "))

PlaywrightFloor == 50
JobFloor == 50

\* extract_text_from_url: Playwright first, requests + BeautifulSoup as the
\* fallback; scrape_calls counts the two fetches
extract_text_run(url, pw, fallback) ==
    IF ~pw.raised /\ pw.text # <<>> /\ Len(Strip(pw.text)) > PlaywrightFloor
    THEN [text |-> clean_job_text(pw.text), scrape_calls |-> 1]
    ELSE [text |-> IF fallback.raised THEN <<>> ELSE clean_job_text(fallback.text),
          scrape_calls |-> 2]

extract_text_from_url(url, pw, fallback) == extract_text_run(url, pw, fallback).text

PersianCode == <<"f", "a">>

\* ai_analyze_job
ai_analyze_job(text, so, det, tr) ==
    LET summary == summarize_text(text, so)
        summary_fa == translate_text(summary, PersianCode, det, tr).translated
        skills == find_skills(text)
    IN  [summary |-> summary,
         summary_translated |-> summary_fa,
         skills |-> skills,
         languages |-> find_languages(text),
         tech_stack |-> find_technologies(text),
         job_fit_score |-> estimate_job_fit(skills)]

JobError == "Could not extract enough text from URL."

\* analyze_job_url rejecting only an empty text
analyze_job_url_nonempty(url, pw, fallback, so, det, tr) ==
    LET raw_text == extract_text_from_url(url, pw, fallback) IN
    IF raw_text = <<>>
    THEN [error |-> JobError, raw_text |-> raw_text, analysed |-> FALSE,
          data |-> [kind |-> "none"]]
    ELSE [error |-> "", raw_text |-> raw_text, analysed |-> TRUE,
          data |-> [kind |-> "job",
                    url |-> url,
                    characters |-> Len(raw_text),
                    words |-> Len(SplitWords(raw_text)),
                    analysis |-> ai_analyze_job(raw_text, so, det, tr)]]

\* analyze_job_url: the error record, or the analysis; raw_text is kept for
\* the caller's bookkeeping
analyze_job_url(url, pw, fallback, so, det, tr) ==
    LET raw_text == extract_text_from_url(url, pw, fallback) IN
    IF Len(raw_text) < JobFloor
    THEN [error |-> JobError, raw_text |-> raw_text, analysed |-> FALSE,
          data |-> [kind |-> "none"]]
    ELSE [error |-> "", raw_text |-> raw_text, analysed |-> TRUE,
          data |-> [kind |-> "job",
                    url |-> url,
                    characters |-> Len(raw_text),
                    words |-> Len(SplitWords(raw_text)),
                    analysis |-> ai_analyze_job(raw_text, so, det, tr)]]

\* ---------------------------------------------------------------------
\* The endpoints that persist no report (api.py).  Each of them touches
\* neither the report directory nor the logs, so a handler is one step.
\* ---------------------------------------------------------------------
\* "", " hi  you "
PlainTexts == {<<>>, <<" ", "h", "i", " ", " ", "y", "o", "u", " ">>}
\* "too short", "ten chars.", and a page of 30 characters
SummarizeInputs == {<<"t", "o", "o", " ", "s", "h", "o", "r", "t">>, <<"t", "e", "n", " ", "c", "h", "a", "r", "s", ".">>, Page30}
\* "", " ", "good"
TranslateInputs == {<<>>, <<" ">>, <<"g", "o", "o", "d">>}
TargetLangs == {<<"e", "n">>, <<"d", "e">>}
\* "", "ok", " ok ", "good", three Persian letters, "caf" and an accented e
SentimentInputs == {<<>>, <<"o", "k">>, <<" ", "o", "k", " ">>, <<"g", "o", "o", "d">>,
                    <<PersianLetter, PersianLetter, PersianLetter>>,
                    <<"c", "a", "f", AccentedLetter>>}
\* "http://e.c", " https://e.c/j\n", "ftp://e.c", "e.c/j"
Urls == {<<"h", "t", "t", "p", ":", "/", "/", "e", ".", "c">>,
         <<" ", "h", "t", "t", "p", "s", ":", "/", "/", "e", ".", "c", "/", "j", "\n">>,
         <<"f", "t", "p", ":", "/", "/", "e", ".", "c">>, <<"e", ".", "c", "/", "j">>}
UrlTranslateTargets == {None, <<" ">>, <<"d", "e">>}

HttpPrefix == <<"h", "t", "t", "p", ":", "/", "/">>
HttpsPrefix == <<"h", "t", "t", "p", "s", ":", "/", "/">>

\* url.startswith("http://") or url.startswith("https://")
HasHttpScheme(url) == StartsWith(url, HttpPrefix) \/ StartsWith(url, HttpsPrefix)

BadUrl == <<"URL must start with http:// or https://">>

\* the handler returns its response
Done(r, body) == [r EXCEPT !.pc = "done", !.status = 200, !.body = body]

QueryFrame == UNCHANGED <<now, files, requests_log, requests_jsonl>>

\* GET /
home(w) ==
    /\ Accept(w)
    /\ req' = [req EXCEPT ![w] =
                 Done([IdleReq EXCEPT !.ep = "/"],
                      [kind |-> "home", message |-> "Automation API is running!"])]
    /\ QueryFrame /\ UNCHANGED data_files

\* GET /process
process(w) ==
    /\ Accept(w)
    /\ \E text \in PlainTexts, joke \in JokeOutcomes :
          LET cleaned == clean_text(text)
              stats == get_text_stats(cleaned)
              r == [IdleReq EXCEPT !.ep = "/process", !.text = text,
                                   !.cleaned = cleaned,
                                   !.chars = stats[1], !.words = stats[2],
                                   !.joke_raised = joke.raised,
                                   !.setup = joke.setup,
                                   !.punchline = joke.punchline]
          IN  req' = [req EXCEPT ![w] =
                        IF joke.raised
                        THEN Fail(r, 500, InternalError)
                        ELSE Done(r, [kind |-> "process",
                                      cleaned |-> cleaned,
                                      characters |-> stats[1],
                                      words |-> stats[2],
                                      joke_setup |-> joke.setup,
                                      joke_punchline |-> joke.punchline])]
    /\ QueryFrame /\ UNCHANGED data_files

\* analyze_only logging the request as process_text does
analyze_only_logging(w) ==
    /\ Accept(w)
    /\ \E text \in PlainTexts :
          LET cleaned == clean_text(text)
              stats == get_text_stats(cleaned)
              r == [IdleReq EXCEPT !.ep = "/analyze_only", !.text = text,
                                   !.cleaned = cleaned,
                                   !.chars = stats[1], !.words = stats[2]]
          IN  /\ requests_log' = requests_log \o LogLine(now, text, cleaned)
              /\ requests_jsonl' = requests_jsonl \o JsonLine(now, text, cleaned)
              /\ req' = [req EXCEPT ![w] =
                           Done(r, [kind |-> "analyze_only",
                                    cleaned |-> cleaned,
                                    characters |-> stats[1],
                                    words |-> stats[2]])]
    /\ UNCHANGED <<now, files, data_files>>

\* POST /analyze_only
analyze_only(w) ==
    /\ Accept(w)
    /\ \E text \in PlainTexts :
          LET cleaned == clean_text(text)
              stats == get_text_stats(cleaned)
              r == [IdleReq EXCEPT !.ep = "/analyze_only", !.text = text,
                                   !.cleaned = cleaned,
                                   !.chars = stats[1], !.words = stats[2]]
          IN  req' = [req EXCEPT ![w] =
                        Done(r, [kind |-> "analyze_only",
                                 cleaned |-> cleaned,
                                 characters |-> stats[1],
                                 words |-> stats[2]])]
    /\ QueryFrame /\ UNCHANGED data_files

MinSummarizeChars == 10

\* POST /summarize
summarize(w) ==
    /\ Accept(w)
    /\ \E text \in SummarizeInputs, so \in SummarizerOutcomes :
          LET r == [IdleReq EXCEPT !.ep = "/summarize", !.text = text] IN
          req' = [req EXCEPT ![w] =
                    IF Len(Strip(text)) < MinSummarizeChars
                    THEN Fail(r, 400, <<"Text too short.">>)
                    ELSE LET summary == summarize_text(text, so) IN
                         Done([r EXCEPT !.summary = summary,
                                        !.calls.summarize = 1],
                              [kind |-> "summarize", original |-> text,
                               summary |-> summary])]
    /\ QueryFrame /\ UNCHANGED data_files

\* POST /translate
translate(w) ==
    /\ Accept(w)
    /\ \E text \in TranslateInputs, target_lang \in TargetLangs,
          det \in DetectOutcomes, tr \in TranslateOutcomes :
          LET data == translate_text(text, target_lang, det, tr)
              r == [IdleReq EXCEPT !.ep = "/translate", !.text = text,
                                   !.translate_to = target_lang,
                                   !.translated = data.translated,
                                   !.calls.translate = 1]
          IN  req' = [req EXCEPT ![w] =
                        Done(r, [kind |-> "translate",
                                 source_lang |-> data.source_lang,
                                 target_lang |-> data.target_lang,
                                 original |-> data.original,
                                 translated |-> data.translated])]
    /\ QueryFrame /\ UNCHANGED data_files

\* POST /sentiment: analyze_sentiment is the one of tools/sentiment.py
\* (api.py line 22); its result has no "note" key
sentiment(w) ==
    /\ Accept(w)
    /\ \E text \in SentimentInputs, tr \in TranslateOutcomes,
          model \in SentimentModelOutcomes :
          LET data == analyze_sentiment(text, tr, model)
              r == [IdleReq EXCEPT !.ep = "/sentiment", !.text = text,
                                   !.calls.translate = data.translate_calls,
                                   !.calls.model = data.model_calls]
          IN  req' = [req EXCEPT ![w] =
                        IF data.raised # ""
                        THEN Fail([r EXCEPT !.raised = data.raised],
                                  500, InternalError)
                        ELSE IF {"label", "score", "note"} \subseteq DOMAIN data.value
                        THEN Done(r, [kind |-> "sentiment",
                                      label |-> data.value.label,
                                      score |-> data.value.score,
                                      note |-> data.value.note])
                        ELSE Fail([r EXCEPT !.raised = "KeyError"],
                                  500, InternalError)]
    /\ QueryFrame /\ UNCHANGED data_files

\* POST /sentiment_ai
sentiment_ai(w) ==
    /\ Accept(w)
    /\ \E text \in SentimentInputs, tr \in TranslateOutcomes,
          model \in SentimentModelOutcomes :
          LET r == [IdleReq EXCEPT !.ep = "/sentiment_ai", !.text = text] IN
          req' = [req EXCEPT ![w] =
                    IF Len(Strip(text)) < MinSentimentChars
                    THEN Fail(r, 400, <<"Text is too short.">>)
                    ELSE LET result == analyze_sentiment(text, tr, model)
                             r1 == [r EXCEPT
                                      !.raised = result.raised,
                                      !.calls.translate = result.translate_calls,
                                      !.calls.model = result.model_calls]
                         IN  IF result.raised = "ValueError"
                             THEN Fail(r1, 400, <<result.message>>)
                             ELSE IF result.raised # ""
                             THEN Fail(r1, 500, <<"Sentiment analysis failed: ",
                                                  result.message>>)
                             ELSE Done(r1, [kind |-> "sentiment_ai",
                                            language |-> result.value.language,
                                            label |-> result.value.label,
                                            score |-> result.value.score,
                                            translated_text |->
                                                result.value.translated_text])]
    /\ QueryFrame /\ UNCHANGED data_files

MinScrapeAiChars == 20

\* POST /scrape_url_ai
scrape_url_ai(w) ==
    /\ Accept(w)
    /\ \E raw_url \in Urls, to \in UrlTranslateTargets :
          LET url == Strip(raw_url)
              r == [IdleReq EXCEPT !.ep = "/scrape_url_ai", !.url = raw_url,
                                   !.translate_to = to]
          IN
          IF ~HasHttpScheme(url)
          THEN req' = [req EXCEPT ![w] = Fail(r, 400, BadUrl)]
          ELSE \E html \in HtmlOutcomes :
             LET scraped == scrape_url(url, html)
                 r1 == [r EXCEPT !.calls.scrape = 1,
                                 !.scrape_raised = html.raised]
                 extracted_text == scraped.extracted_text
             IN
             IF scraped.raised
             THEN req' = [req EXCEPT ![w] =
                            Fail(r1, 500, <<"Error scraping URL: ", scraped.message>>)]
             ELSE IF Len(Strip(extracted_text)) < MinScrapeAiChars
             THEN req' = [req EXCEPT ![w] =
                            Fail([r1 EXCEPT !.extracted = extracted_text], 400,
                                 <<"Extracted text is too short to analyze.">>)]
             ELSE \E so \in SummarizerOutcomes, det \in DetectOutcomes,
                     tr \in TranslateOutcomes :
                LET cleaned == clean_text(extracted_text)
                    stats == get_text_stats(cleaned)
                    summary == summarize_text(cleaned, so)
                    wanted == to # None /\ Strip(to) # <<>>
                    summary_translated ==
                        IF wanted
                        THEN translate_text(summary, Strip(to), det, tr).translated
                        ELSE None
                IN  req' = [req EXCEPT ![w] =
                              Done([r1 EXCEPT !.extracted = extracted_text,
                                              !.cleaned = cleaned,
                                              !.chars = stats[1],
                                              !.words = stats[2],
                                              !.summary = summary,
                                              !.translated = summary_translated,
                                              !.calls.summarize = 1,
                                              !.calls.translate =
                                                  IF wanted THEN 1 ELSE 0],
                                   [kind |-> "scrape_url_ai",
                                    url |-> url,
                                    domain |-> scraped.domain,
                                    cleaned |-> cleaned,
                                    characters |-> stats[1],
                                    words |-> stats[2],
                                    summary |-> summary,
                                    summary_translated |-> summary_translated])]
    /\ QueryFrame /\ UNCHANGED data_files

PreviewChars == 500

\* POST /scrape_url
scrape_url_endpoint(w) ==
    /\ Accept(w)
    /\ \E raw_url \in Urls, pw \in FetchOutcomes :
          LET url == Strip(raw_url)
              r == [IdleReq EXCEPT !.ep = "/scrape_url", !.url = raw_url,
                                   !.calls.scrape = 1,
                                   !.scrape_raised = pw.raised]
          IN  req' = [req EXCEPT ![w] =
                        IF pw.raised THEN Fail(r, 500, InternalError)
                        ELSE Done([r EXCEPT !.extracted = pw.text],
                                  [kind |-> "scrape_url",
                                   url |-> url,
                                   text_length |-> Len(pw.text),
                                   preview |-> Truncate(pw.text, PreviewChars),
                                   full_text |-> pw.text])]
    /\ QueryFrame /\ UNCHANGED data_files

\* s.split(c)
RECURSIVE SplitOn(_, _)
SplitOn(s, c) ==
    IF \E i \in 1..Len(s) : s[i] = c
    THEN LET i == CHOOSE k \in 1..Len(s) :
                     s[k] = c /\ \A j \in 1..(k - 1) : s[j] # c
         IN  <<SubSeq(s, 1, i - 1)>> \o SplitOn(SubSeq(s, i + 1, Len(s)), c)
    ELSE <<s>>

\* the rows /scrape_to_csv writes: the header, then one numbered row per
\* non-empty line
CsvRows(url, text) ==
    LET lines == SelectSeq([i \in 1..Len(SplitOn(text, "\n")) |->
                               Strip(SplitOn(text, "\n")[i])],
                           LAMBDA line : line # <<>>)
    IN  [header |-> <<"index", "url", "line">>,
         rows |-> [i \in 1..Len(lines) |->
                      [index |-> i, url |-> url, line |-> lines[i]]]]

MinCsvChars == 10

\* POST /scrape_to_csv
scrape_to_csv(w) ==
    /\ Accept(w)
    /\ \E raw_url \in Urls, pw \in FetchOutcomes :
          LET url == Strip(raw_url)
              r == [IdleReq EXCEPT !.ep = "/scrape_to_csv", !.url = raw_url]
              r1 == [r EXCEPT !.calls.scrape = 1, !.scrape_raised = pw.raised]
              r2 == [r1 EXCEPT !.extracted = pw.text]
              filepath == Len(data_files) + 1
          IN  IF ~HasHttpScheme(url)
              THEN /\ req' = [req EXCEPT ![w] = Fail(r, 400, BadUrl)]
                   /\ UNCHANGED data_files
              ELSE IF pw.raised
              THEN /\ req' = [req EXCEPT ![w] =
                                Fail(r1, 500, <<"Error scraping URL: ", pw.message>>)]
                   /\ UNCHANGED data_files
              ELSE IF Len(Strip(pw.text)) < MinCsvChars
              THEN /\ req' = [req EXCEPT ![w] =
                                Fail(r2, 400,
                                     <<"Extracted text is too short to save.">>)]
                   /\ UNCHANGED data_files
              ELSE /\ data_files' = Append(data_files, CsvRows(url, pw.text))
                   /\ req' = [req EXCEPT ![w] =
                                Done(r2, [kind |-> "scrape_to_csv",
                                          csv_file |-> filepath])]
    /\ QueryFrame

MinAnalyzeChars == 50

\* POST /analyze_url_ai
analyze_url_ai(w) ==
    /\ Accept(w)
    /\ \E raw_url \in Urls, to \in UrlTranslateTargets :
          LET url == Strip(raw_url)
              r == [IdleReq EXCEPT !.ep = "/analyze_url_ai", !.url = raw_url,
                                   !.translate_to = to]
              domain == get_domain(url)
          IN
          IF ~HasHttpScheme(url)
          THEN req' = [req EXCEPT ![w] = Fail(r, 400, BadUrl)]
          ELSE \E pw \in FetchOutcomes :
             LET r1 == [r EXCEPT !.calls.scrape = 1, !.scrape_raised = pw.raised]
                 raw_text == pw.text
             IN
             IF pw.raised
             THEN req' = [req EXCEPT ![w] =
                            Fail(r1, 500, <<"Error scraping URL: ", pw.message>>)]
             ELSE IF Len(Strip(raw_text)) < MinAnalyzeChars
             THEN req' = [req EXCEPT ![w] =
                            Fail([r1 EXCEPT !.extracted = raw_text], 400,
                                 <<"Extracted text is too short to analyze.">>)]
             ELSE \E so \in SummarizerOutcomes, det \in DetectOutcomes,
                     tr \in TranslateOutcomes :
                LET cleaned == clean_text(raw_text)
                    stats == get_text_stats(cleaned)
                    summary == summarize_text(cleaned, so)
                    wanted == to # None /\ Strip(to) # <<>>
                    \* translate_text raises nothing, so the handler's own
                    \* except branch is never taken
                    summary_translated ==
                        IF wanted
                        THEN translate_text(summary, Strip(to), det, tr).translated
                        ELSE None
                    keywords == extract_keywords_simple(cleaned, DefaultTopN)
                IN  req' = [req EXCEPT ![w] =
                              Done([r1 EXCEPT !.extracted = raw_text,
                                              !.cleaned = cleaned,
                                              !.chars = stats[1],
                                              !.words = stats[2],
                                              !.summary = summary,
                                              !.translated = summary_translated,
                                              !.calls.summarize = 1,
                                              !.calls.translate =
                                                  IF wanted THEN 1 ELSE 0],
                                   [kind |-> "analyze_url_ai",
                                    url |-> url,
                                    domain |-> domain,
                                    characters |-> stats[1],
                                    words |-> stats[2],
                                    summary |-> summary,
                                    summary_translated |-> summary_translated,
                                    keywords |-> keywords])]
    /\ QueryFrame /\ UNCHANGED data_files

\* POST /analyze_job
analyze_job(w) ==
    /\ Accept(w)
    /\ \E raw_url \in Urls :
          LET url == Strip(raw_url)
              r == [IdleReq EXCEPT !.ep = "/analyze_job", !.url = raw_url]
          IN
          IF ~HasHttpScheme(url)
          THEN req' = [req EXCEPT ![w] = Fail(r, 400, BadUrl)]
          ELSE \E pw \in FetchOutcomes, fallback \in FetchOutcomes :
             LET run == extract_text_run(url, pw, fallback)
                 r1 == [r EXCEPT !.calls.scrape = run.scrape_calls,
                                 !.extracted = run.text]
             IN
             \* the enrichment outcomes matter only when the analysis runs
             \E so \in IF Len(run.text) < JobFloor THEN {"unavailable"}
                       ELSE SummarizerOutcomes,
                det \in DetectOutcomes, tr \in TranslateOutcomes :
                LET result == analyze_job_url(url, pw, fallback, so, det, tr) IN
                req' = [req EXCEPT ![w] =
                          IF result.error # ""
                          THEN Fail(r1, 400, <<result.error>>)
                          ELSE LET data == result.data IN
                               Done([r1 EXCEPT
                                       !.chars = data.characters,
                                       !.words = data.words,
                                       !.summary = data.analysis.summary,
                                       !.translated =
                                           data.analysis.summary_translated,
                                       !.calls.summarize = 1,
                                       !.calls.translate = 1],
                                    data)]
    /\ QueryFrame /\ UNCHANGED data_files

\* the worker that serves the requests of SpecQuery
FirstWorker == CHOOSE w \in Workers : \A v \in Workers : w <= v

NextQuery ==
    \E w \in {FirstWorker} :
        \/ home(w)
        \/ process(w)
        \/ analyze_only(w)
        \/ summarize(w)
        \/ translate(w)
        \/ sentiment(w)
        \/ sentiment_ai(w)
        \/ scrape_url_ai(w)
        \/ scrape_url_endpoint(w)
        \/ scrape_to_csv(w)
        \/ analyze_url_ai(w)
        \/ analyze_job(w)
        \/ respond(w)

\* the server handling the endpoints that persist no report, one at a time
SpecQuery == Init /\ [][NextQuery]_vars

\* ---------------------------------------------------------------------
\* Calls of the library functions (tools/ai_tools.py, tools/text_stats.py,
\* tools/job_analyzer.py, extract_keywords_simple of api.py).  A worker
\* evaluates one call at a time; the arguments and the result are kept in
\* req[w] until the caller has taken the result.
\* ---------------------------------------------------------------------
\* " hi "
PaddedShort == <<" ", "h", "i", " ">>
\* "short text here" followed by five spaces: 20 characters, 15 when trimmed
PaddedTwenty == <<"s", "h", "o", "r", "t", " ", "t", "e", "x", "t", " ", "h", "e", "r", "e", " ", " ", " ", " ", " ">>
\* "This is a plain English text."
PlainEnglish == <<"T", "h", "i", "s", " ", "i", "s", " ", "a", " ", "p", "l", "a", "i", "n", " ", "E", "n", "g", "l", "i", "s", "h", " ", "t", "e", "x", "t", ".">>
\* 24 characters of Persian words
PersianText == [i \in 1..24 |-> IF i % 5 = 0 THEN " " ELSE PersianLetter]
\* 450 characters of nine-character sentences
ManySentences ==
    [i \in 1..450 |-> IF i % 10 = 9 THEN "." ELSE IF i % 10 = 0 THEN " " ELSE "a"]
\* 450 characters of nine-character words without a sentence end
OneSentence == [i \in 1..450 |-> IF i % 10 = 0 THEN " " ELSE "b"]
\* "Hi. Ok. " followed by one word of 4000 letters
LongText == <<"H", "i", ".", " ", "O", "k", ".", " ">> \o [i \in 1..4000 |-> "a"]

SummarizeTexts == {PaddedShort, PaddedTwenty, PlainEnglish, PersianText,
                   ManySentences, OneSentence, LongText}

\* "", "  ", " good "
TranslateTexts == {<<>>, <<" ", " ">>, <<" ", "g", "o", "o", "d", " ">>}

\* "", "  ", " hi  you ", "one", "a\tb\nc "
StatsTexts == {<<>>, <<" ", " ">>, <<" ", "h", "i", " ", " ", "y", "o", "u", " ">>, <<"o", "n", "e">>,
               <<"a", "\t", "b", "\n", "c", " ">>}

\* "", "ab abc ABC xyz", "The cat and the dog; cat DOG dog",
\* "one two three", "zebra apple2zebra apple mango"
KeywordTexts == {<<>>, <<"a", "b", " ", "a", "b", "c", " ", "A", "B", "C", " ", "x", "y", "z">>,
                 <<"T", "h", "e", " ", "c", "a", "t", " ", "a", "n", "d", " ", "t", "h", "e", " ", "d", "o", "g", ";", " ", "c", "a", "t", " ", "D", "O", "G", " ", "d", "o", "g">>,
                 <<"o", "n", "e", " ", "t", "w", "o", " ", "t", "h", "r", "e", "e">>,
                 <<"z", "e", "b", "r", "a", " ", "a", "p", "p", "l", "e", "2", "z", "e", "b", "r", "a", " ", "a", "p", "p", "l", "e", " ", "m", "a", "n", "g", "o">>}
TopNs == {0, 1, 2, 3, DefaultTopN}

\* what find_skills can return: the first n skills in sorted order
SkillLists ==
    {SubSeq(Sorted(Range(SKILL_KEYWORDS)), 1, n) : n \in 0..Len(SKILL_KEYWORDS)}

\* "", "German and ENGLISH", "french, german", "Python, Java and JavaScript",
\* "NoSQL on AWS with Docker", "machine learning api"
FindTexts == {<<>>, <<"G", "e", "r", "m", "a", "n", " ", "a", "n", "d", " ", "E", "N", "G", "L", "I", "S", "H">>,
              <<"f", "r", "e", "n", "c", "h", ",", " ", "g", "e", "r", "m", "a", "n">>,
              <<"P", "y", "t", "h", "o", "n", ",", " ", "J", "a", "v", "a", " ", "a", "n", "d", " ", "J", "a", "v", "a", "S", "c", "r", "i", "p", "t">>,
              <<"N", "o", "S", "Q", "L", " ", "o", "n", " ", "A", "W", "S", " ", "w", "i", "t", "h", " ", "D", "o", "c", "k", "e", "r">>,
              <<"m", "a", "c", "h", "i", "n", "e", " ", "l", "e", "a", "r", "n", "i", "n", "g", " ", "a", "p", "i">>}
Finders == {"find_skills", "find_languages", "find_technologies"}

\* the call returned body, or raised
Returned(r, body) == [r EXCEPT !.pc = "done", !.body = body]

\* summarize_text(text)
call_summarize_text(w) ==
    /\ Accept(w)
    /\ \E text \in SummarizeTexts, so \in SummarizerOutcomes :
          LET run == summarize_run(text, so)
              r == [IdleReq EXCEPT !.ep = "summarize_text", !.text = text,
                                   !.raised = IF run.raised THEN "Exception" ELSE "",
                                   !.calls.summarize = 1,
                                   !.calls.model = run.model_calls]
          IN  req' = [req EXCEPT ![w] =
                        Returned(r, [kind |-> "summary",
                                     outcome |-> so,
                                     value |-> run.value,
                                     fallback_calls |-> run.fallback_calls])]
    /\ QueryFrame /\ UNCHANGED data_files

\* translate_text(text, target_lang)
call_translate_text(w) ==
    /\ Accept(w)
    /\ \E text \in TranslateTexts, target_lang \in TargetLangs,
          det \in DetectOutcomes, tr \in TranslateOutcomes :
          LET data == translate_text(text, target_lang, det, tr)
              r == [IdleReq EXCEPT !.ep = "translate_text", !.text = text,
                                   !.translate_to = target_lang,
                                   !.raised = IF data.raised THEN "Exception" ELSE "",
                                   !.calls.translate = data.provider_calls]
          IN  req' = [req EXCEPT ![w] =
                        Returned(r, [kind |-> "translation",
                                     detect |-> det, provider |-> tr,
                                     source_lang |-> data.source_lang,
                                     target_lang |-> data.target_lang,
                                     original |-> data.original,
                                     translated |-> data.translated])]
    /\ QueryFrame /\ UNCHANGED data_files

\* get_text_stats(clean_text(text))
call_get_text_stats(w) ==
    /\ Accept(w)
    /\ \E text \in StatsTexts :
          LET cleaned == clean_text(text)
              stats == get_text_stats(cleaned)
              r == [IdleReq EXCEPT !.ep = "get_text_stats", !.text = text,
                                   !.cleaned = cleaned]
          IN  req' = [req EXCEPT ![w] =
                        Returned(r, [kind |-> "stats",
                                     num_chars |-> stats[1],
                                     num_words |-> stats[2]])]
    /\ QueryFrame /\ UNCHANGED data_files

\* extract_keywords_simple(text, top_n)
call_extract_keywords_simple(w) ==
    /\ Accept(w)
    /\ \E text \in KeywordTexts, top_n \in TopNs :
          LET r == [IdleReq EXCEPT !.ep = "extract_keywords_simple",
                                   !.text = text]
          IN  req' = [req EXCEPT ![w] =
                        Returned(r, [kind |-> "keywords",
                                     top_n |-> top_n,
                                     value |-> extract_keywords_simple(text, top_n)])]
    /\ QueryFrame /\ UNCHANGED data_files

\* estimate_job_fit(skills)
call_estimate_job_fit(w) ==
    /\ Accept(w)
    /\ \E skills \in SkillLists :
          LET r == [IdleReq EXCEPT !.ep = "estimate_job_fit"] IN
          req' = [req EXCEPT ![w] =
                    Returned(r, [kind |-> "fit",
                                 skills |-> skills,
                                 value |-> estimate_job_fit(skills),
                                 shorter |-> IF skills = <<>> THEN FitEmpty
                                             ELSE estimate_job_fit(Tail(skills))])]
    /\ QueryFrame /\ UNCHANGED data_files

\* find_skills(text), find_languages(text) or find_technologies(text)
call_find(w) ==
    /\ Accept(w)
    /\ \E text \in FindTexts, f \in Finders :
          LET r == [IdleReq EXCEPT !.ep = f, !.text = text] IN
          req' = [req EXCEPT ![w] =
                    Returned(r, [kind |-> "found",
                                 value |-> CASE f = "find_skills" -> find_skills(text)
                                             [] f = "find_languages" -> find_languages(text)
                                             [] OTHER -> find_technologies(text)])]
    /\ QueryFrame /\ UNCHANGED data_files

NextCalls ==
    \E w \in {FirstWorker} :
        \/ call_summarize_text(w)
        \/ call_translate_text(w)
        \/ call_get_text_stats(w)
        \/ call_extract_keywords_simple(w)
        \/ call_estimate_job_fit(w)
        \/ call_find(w)
        \/ analyze_job(w)
        \/ respond(w)

\* the library functions called one at a time, and /analyze_job, which
\* answers with the result of three of them
SpecCalls == Init /\ [][NextCalls]_vars

\* The server after it has answered POST /process_text {"text": "abc"} in
\* second 0 with the joke fetched: three reports and one line in each log.
HistoryText == <<"a", "b", "c">>

InitServer ==
    /\ now = 0
    /\ files = [p \in ReportPaths |->
                  IF p.ts # 0 THEN NoFile
                  ELSE CASE p.ext = "txt" ->
                              TxtContent(clean_text(HistoryText), 3, 1, "Why?", "Because.")
                         [] p.ext = "json" ->
                              JsonContent(clean_text(HistoryText), 3, 1, "Why?", "Because.")
                         [] OTHER ->
                              CsvContent(clean_text(HistoryText), 3, 1, "Why?", "Because.")]
    /\ requests_log = LogLine(0, HistoryText, clean_text(HistoryText))
    /\ requests_jsonl = JsonLine(0, HistoryText, clean_text(HistoryText))
    /\ data_files = <<>>
    /\ req = [w \in Workers |-> IdleReq]
    /\ served = 1

\* one worker serving every endpoint, one request after the other, while
\* the clock runs
NextServer ==
    \/ Tick
    \/ \E w \in {FirstWorker} :
          \/ process_text(w)
          \/ log_request(w)
          \/ log_json(w)
          \/ upload_file(w)
          \/ upload_pdf(w)
          \/ ai_report(w)
          \/ fetch_joke(w)
          \/ ai_report_translate(w)
          \/ save_txt(w)
          \/ save_json(w)
          \/ save_csv(w)
          \/ home(w)
          \/ process(w)
          \/ analyze_only(w)
          \/ summarize(w)
          \/ translate(w)
          \/ sentiment(w)
          \/ sentiment_ai(w)
          \/ scrape_url_ai(w)
          \/ scrape_url_endpoint(w)
          \/ scrape_to_csv(w)
          \/ analyze_url_ai(w)
          \/ analyze_job(w)
          \/ respond(w)

SpecServer == InitServer /\ [][NextServer]_vars

\* ---------------------------------------------------------------------
\* Properties
\* ---------------------------------------------------------------------
PersistEndpoints == {"/process_text", "/upload_file", "/upload_pdf", "/ai_report"}

\* worker w takes a request in this step
Starts(w) == req[w].pc = "idle" /\ req'[w].pc # "idle"

\* worker w's handler ends in this step
Ends(w) == req[w].pc # "done" /\ req'[w].pc = "done"

SomeReport == \E p \in ReportPaths : files[p] # NoFile

\* C1: a /process_text or /ai_report request whose trimmed text has fewer
\* than 3 characters ends at once with 400 "Text is too short." and leaves
\* the report files and both logs as they were.
C1_ShortTextRejected ==
    [][\A w \in Workers :
          (/\ Starts(w)
           /\ req'[w].ep \in {"/process_text", "/ai_report"}
           /\ Len(Strip(req'[w].text)) < 3)
          => /\ req'[w].pc = "done"
             /\ req'[w].status = 400
             /\ req'[w].detail = <<"Text is too short.">>
             /\ files' = files
             /\ requests_log' = requests_log
             /\ requests_jsonl' = requests_jsonl]_vars

\* a padded short text was rejected while reports and log entries exist
C1_Witness ==
    \E w \in Workers :
        /\ req[w].pc = "done"
        /\ req[w].ep = "/process_text"
        /\ req[w].status = 400
        /\ Len(req[w].text) >= 3
        /\ Len(Strip(req[w].text)) < 3
        /\ SomeReport
        /\ requests_log # <<>>
        /\ requests_jsonl # <<>>

\* C2: a report file, once written, keeps its content: no step of any
\* request changes or removes an existing report file.
C2_ReportsImmutable ==
    [][\A p \in ReportPaths : files[p] # NoFile => files'[p] = files[p]]_vars

\* C3: when a persisting request returns its success response, each of the
\* three returned paths names an existing file that records the cleaned
\* text, the character count and the word count of the response.
C3_ResponseMatchesFiles ==
    [][\A w \in Workers :
          (/\ Ends(w)
           /\ req'[w].status = 200
           /\ req'[w].ep \in PersistEndpoints)
          => \A p \in {req'[w].txt_path, req'[w].json_path, req'[w].csv_path} :
                /\ p \in ReportPaths
                /\ files'[p] # NoFile
                /\ Recorded(files'[p]) =
                      [cleaned |-> req'[w].cleaned,
                       characters |-> req'[w].chars,
                       words |-> req'[w].words]]_vars

\* C4: each completed log_request call and each completed log_json call
\* adds exactly one line to its log and keeps what the log held before.
C4_OneLinePerLogCall ==
    [][\A w \in Workers :
          /\ (req[w].pc = "log_request" /\ req'[w].pc = "log_json")
             => /\ Lines(requests_log') = Lines(requests_log) + 1
                /\ IsPrefix(requests_log, requests_log')
          /\ (req[w].pc = "log_json" /\ req'[w].pc = "get_joke")
             => /\ Lines(requests_jsonl') = Lines(requests_jsonl) + 1
                /\ IsPrefix(requests_jsonl, requests_jsonl')]_vars

UrlEndpoints ==
    {"/scrape_url_ai", "/scrape_url", "/scrape_to_csv", "/analyze_url_ai",
     "/analyze_job"}

\* C5: on every URL endpoint a URL that, trimmed, starts with neither
\* http:// nor https:// is answered with 400 and the scraper is not called.
C5_BadSchemeRejected ==
    \A w \in Workers :
        (/\ req[w].pc = "done"
         /\ req[w].ep \in UrlEndpoints
         /\ ~StartsWith(Strip(req[w].url), <<"h", "t", "t", "p", ":", "/", "/">>)
         /\ ~StartsWith(Strip(req[w].url), <<"h", "t", "t", "p", "s", ":", "/", "/">>))
        => /\ req[w].status = 400
           /\ req[w].calls.scrape = 0

ScrapeMessages ==
    {o.message : o \in {x \in FetchOutcomes \cup HtmlOutcomes : x.raised}}

\* C6: on /scrape_url_ai, /scrape_to_csv and /analyze_url_ai a scrape that
\* raises ends the request with 500, the detail embedding the error message;
\* nothing is summarized or translated and no CSV file is created.
C6_ScrapeFailureSurfaces ==
    [][\A w \in Workers :
          (/\ Starts(w)
           /\ req'[w].ep \in {"/scrape_url_ai", "/scrape_to_csv", "/analyze_url_ai"}
           /\ req'[w].scrape_raised)
          => /\ req'[w].pc = "done"
             /\ req'[w].status = 500
             /\ Len(req'[w].detail) = 2
             /\ req'[w].detail[1] = "Error scraping URL: "
             /\ req'[w].detail[2] \in ScrapeMessages
             /\ req'[w].body = [kind |-> "none"]
             /\ req'[w].summary = None
             /\ req'[w].translated = None
             /\ req'[w].calls.summarize = 0
             /\ req'[w].calls.translate = 0
             /\ data_files' = data_files]_vars

\* a scrape failed on /scrape_to_csv while an earlier CSV file exists
C6_Witness ==
    \E w \in Workers :
        /\ req[w].pc = "done"
        /\ req[w].ep = "/scrape_to_csv"
        /\ req[w].scrape_raised
        /\ req[w].status = 500
        /\ data_files # <<>>

ContentEndpoints ==
    {"/scrape_url_ai", "/scrape_to_csv", "/analyze_url_ai", "/analyze_job"}

\* C7 as stated: every content endpoint has a floor of at least 20
\* characters, so an extracted text shorter than 20 is answered with 400.
C7_FloorAtLeastTwenty ==
    \A w \in Workers :
        (/\ req[w].pc = "done"
         /\ req[w].ep \in ContentEndpoints
         /\ req[w].extracted # None
         /\ Len(Strip(req[w].extracted)) < 20)
        => req[w].status = 400

\* the floor of each content endpoint
ContentFloor(ep) ==
    CASE ep = "/scrape_to_csv" -> 10
      [] ep = "/scrape_url_ai" -> 20
      [] ep = "/analyze_url_ai" -> 50
      [] ep = "/analyze_job" -> 50

\* C7: an extracted text shorter than the endpoint's floor (10 for
\* /scrape_to_csv, 20 for /scrape_url_ai, 50 for /analyze_url_ai and
\* /analyze_job) is answered with 400, on /analyze_job with the detail
\* "Could not extract enough text from URL."; no summary is computed and
\* no file is written.
C7_ThinContentRejected ==
    [][\A w \in Workers :
          (/\ Starts(w)
           /\ req'[w].ep \in ContentEndpoints
           /\ req'[w].extracted # None
           /\ Len(Strip(req'[w].extracted)) < ContentFloor(req'[w].ep))
          => /\ req'[w].pc = "done"
             /\ req'[w].status = 400
             /\ req'[w].ep = "/analyze_job"
                   => req'[w].detail = <<"Could not extract enough text from URL.">>
             /\ req'[w].summary = None
             /\ req'[w].calls.summarize = 0
             /\ data_files' = data_files
             /\ files' = files]_vars

\* /analyze_job rejected a non-empty extracted text below its floor
C7_Witness ==
    \E w \in Workers :
        /\ req[w].pc = "done"
        /\ req[w].ep = "/analyze_job"
        /\ req[w].extracted # None
        /\ Len(req[w].extracted) = 30
        /\ req[w].status = 400

\* C8: a joke fetch that raises never fails the request; setup and
\* punchline are then empty.
C8_JokeFailureTolerated ==
    \A w \in Workers :
        (req[w].pc = "done" /\ req[w].joke_raised /\ req[w].ep = "/process")
        => /\ req[w].status = 200
           /\ req[w].setup = ""
           /\ req[w].punchline = ""

\* C9: /sentiment answers every text with label, score and note.
C9_SentimentAlwaysAnswers ==
    \A w \in Workers :
        (req[w].pc = "done" /\ req[w].ep = "/sentiment")
        => /\ req[w].status = 200
           /\ {"label", "score", "note"} \subseteq DOMAIN req[w].body

AllAscii(text) == \A i \in 1..Len(text) : text[i] \notin NonAsciiChars

\* C10: /sentiment_ai ends in one of four ways: 400 "Text is too short."
\* without a model call for a trimmed text under 3 characters; 400 when the
\* analyzer raises ValueError; 500 when it raises anything else; otherwise
\* success, with language "en", no translation call and a null
\* translated_text for an all-ASCII text.
C10_SentimentAiOutcomes ==
    \A w \in Workers :
        (req[w].pc = "done" /\ req[w].ep = "/sentiment_ai")
        => LET r == req[w]
               short == Len(Strip(r.text)) < 3
           IN  /\ short => /\ r.status = 400
                           /\ r.detail = <<"Text is too short.">>
                           /\ r.calls.model = 0
                           /\ r.calls.translate = 0
               /\ (~short /\ r.raised = "ValueError") => r.status = 400
               /\ (~short /\ r.raised \notin {"", "ValueError"}) => r.status = 500
               /\ (~short /\ r.raised = "")
                     => /\ r.status = 200
                        /\ r.body.kind = "sentiment_ai"
                        /\ r.body.label \in {"POSITIVE", "NEGATIVE"}
                        /\ r.body.score \in 0..100
                        /\ AllAscii(r.text) <=> r.body.language = "en"
                        /\ r.body.language = "en"
                              => /\ r.body.translated_text = None
                                 /\ r.calls.translate = 0
               /\ r.status \in {200, 400, 500}

\* an English text was scored without translation
C10_Witness ==
    \E w \in Workers :
        /\ req[w].pc = "done"
        /\ req[w].ep = "/sentiment_ai"
        /\ req[w].status = 200
        /\ req[w].body.language = "en"
        /\ req[w].body.translated_text = None

\* worker w holds the result of a call of the function fn
Called(w, fn) == req[w].pc = "done" /\ req[w].ep = fn

\* C11: summarize_text never raises, calls the external model at most once,
\* and whenever the model is unavailable or its call fails the result is
\* simple_summary of the trimmed input cut to its first 4000 characters.
C11_SummarizeFallsBack ==
    \A w \in Workers :
        Called(w, "summarize_text")
        => LET r == req[w]
               trimmed == Strip(r.text)
               input == IF Len(trimmed) > 4000 THEN SubSeq(trimmed, 1, 4000)
                        ELSE trimmed
           IN  /\ r.raised = ""
               /\ r.calls.model <= 1
               /\ r.body.outcome \in {"unavailable", "raises"}
                     => r.body.value = simple_summary(input)

\* the model was called on a text of more than 4000 characters, failed, and
\* the excerpt was returned
C11_Witness ==
    \E w \in Workers :
        /\ Called(w, "summarize_text")
        /\ Len(req[w].text) > 4000
        /\ req[w].body.outcome = "raises"
        /\ req[w].calls.model = 1
        /\ req[w].body.fallback_calls = 1
        /\ req[w].body.value = <<"H", "i", ".", " ", "O", "k", ".", ".", ".", ".">>

\* C12: for a text of fewer than 20 characters summarize_text returns the
\* input unchanged and calls neither the external model nor the fallback.
C12_ShortTextUnchanged ==
    \A w \in Workers :
        (Called(w, "summarize_text") /\ Len(req[w].text) < 20)
        => /\ req[w].body.value = req[w].text
           /\ req[w].calls.model = 0
           /\ req[w].body.fallback_calls = 0

\* C12 as amended: for a text of fewer than 20 characters summarize_text
\* returns the input with its surrounding whitespace removed and calls
\* neither the external model nor the fallback.
C12_ShortTextTrimmed ==
    \A w \in Workers :
        (Called(w, "summarize_text") /\ Len(req[w].text) < 20)
        => /\ req[w].raised = ""
           /\ req[w].body.value = Strip(req[w].text)
           /\ req[w].calls.model = 0
           /\ req[w].body.fallback_calls = 0

\* a padded short text came back trimmed although the model was ready
C12_Witness ==
    \E w \in Workers :
        /\ Called(w, "summarize_text")
        /\ req[w].text = PaddedShort
        /\ req[w].body.outcome = "ok"
        /\ req[w].body.value = <<"h", "i">>

\* C13: translate_text never raises; a failed detection gives source_lang
\* "auto", a failed translation gives the trimmed original as translated, and
\* each of the two is decided by its own call alone.
C13_TranslateNeverRaises ==
    \A w \in Workers :
        Called(w, "translate_text")
        => LET r == req[w]
               b == r.body
               text == Strip(r.text)
           IN  /\ r.raised = ""
               /\ b.target_lang = r.translate_to
               /\ text # <<>>
                     => /\ b.original = text
                        /\ b.source_lang = IF b.detect.raised THEN <<"a", "u", "t", "o">>
                                           ELSE b.detect.value
                        /\ b.translated = IF b.provider.raised THEN text
                                          ELSE b.provider.value

\* the detection failed and the translation was still made
C13_Witness ==
    \E w \in Workers :
        /\ Called(w, "translate_text")
        /\ req[w].body.detect.raised
        /\ ~req[w].body.provider.raised
        /\ req[w].body.source_lang = <<"a", "u", "t", "o">>
        /\ req[w].body.translated = <<"t", "r">>

\* C14: translate_text of a text that is empty when trimmed returns empty
\* original and translated without calling the provider; of any other text
\* it never returns an empty translated.
C14_TranslatedNeverEmpty ==
    \A w \in Workers :
        Called(w, "translate_text")
        => LET r == req[w] IN
           /\ Strip(r.text) = <<>>
                 => /\ r.body.original = <<>>
                    /\ r.body.translated = <<>>
                    /\ r.calls.translate = 0
           /\ Strip(r.text) # <<>> => r.body.translated # <<>>

\* number of whitespace-delimited tokens of s
NumTokens(s) ==
    Cardinality({i \in 1..Len(s) :
                    s[i] \notin Whitespace /\ (i = 1 \/ s[i - 1] \in Whitespace)})

\* C15: get_text_stats of a normalized text is (0, 0) exactly when the
\* normalized text is empty; otherwise it is the length of the text and the
\* number of its whitespace-delimited tokens, both at least 1.
C15_StatsOfNormalized ==
    \A w \in Workers :
        Called(w, "get_text_stats")
        => LET c == req[w].cleaned
               b == req[w].body
           IN  /\ (b.num_chars = 0 /\ b.num_words = 0) <=> c = <<>>
               /\ c # <<>> => /\ b.num_chars = Len(c)
                              /\ b.num_words = NumTokens(c)
                              /\ b.num_chars >= 1
                              /\ b.num_words >= 1

\* " hi  you " was normalized and counted: 6 characters, 2 words
C15_Witness ==
    \E w \in Workers :
        /\ Called(w, "get_text_stats")
        /\ req[w].text = <<" ", "h", "i", " ", " ", "y", "o", "u", " ">>
        /\ req[w].body.num_chars = 6
        /\ req[w].body.num_words = 2

\* the maximal runs of ASCII letters of s, as pairs of first and last index
Runs(s) ==
    {p \in (1..Len(s)) \X (1..Len(s)) :
        /\ p[1] <= p[2]
        /\ \A k \in p[1]..p[2] : s[k] \in AsciiLetters
        /\ (p[1] = 1 \/ s[p[1] - 1] \notin AsciiLetters)
        /\ (p[2] = Len(s) \/ s[p[2] + 1] \notin AsciiLetters)}

\* how often the token tok is a run of s, and where it is one first
Freq(s, tok) == Cardinality({p \in Runs(s) : SubSeq(s, p[1], p[2]) = tok})
FirstAt(s, tok) ==
    CHOOSE i \in 1..Len(s) :
        /\ \E p \in Runs(s) : p[1] = i /\ SubSeq(s, p[1], p[2]) = tok
        /\ \A p \in Runs(s) : SubSeq(s, p[1], p[2]) = tok => i <= p[1]

\* the runs of 3 or more letters that are no stopwords
Candidates(s) ==
    {SubSeq(s, p[1], p[2]) : p \in {q \in Runs(s) : q[2] - q[1] + 1 >= 3}}
        \ stopwords

\* C16: extract_keywords_simple returns at most top_n distinct tokens of the
\* lowercased text, each a run of 3 or more letters outside the stopwords,
\* the most frequent first and equally frequent ones in the order of their
\* first occurrence; no token left out is more frequent than one returned.
C16_KeywordsRanked ==
    \A w \in Workers :
        Called(w, "extract_keywords_simple")
        => LET s == Lower(req[w].text)
               res == req[w].body.value
               n == req[w].body.top_n
           IN  /\ Len(res) <= n
               /\ \A i, j \in 1..Len(res) : i # j => res[i] # res[j]
               /\ \A i \in 1..Len(res) : res[i] \in Candidates(s)
               /\ \A i, j \in 1..Len(res) :
                     i < j => \/ Freq(s, res[i]) > Freq(s, res[j])
                              \/ /\ Freq(s, res[i]) = Freq(s, res[j])
                                 /\ FirstAt(s, res[i]) < FirstAt(s, res[j])
               /\ \A tok \in Candidates(s) \ Range(res) :
                     /\ Len(res) = n
                     /\ \A i \in 1..Len(res) : Freq(s, tok) <= Freq(s, res[i])

\* two equally frequent tokens were returned in the order of the text, the
\* rarer third one was left out
C16_Witness ==
    \E w \in Workers :
        /\ Called(w, "extract_keywords_simple")
        /\ req[w].body.top_n = 2
        /\ req[w].body.value = <<<<"z", "e", "b", "r", "a">>, <<"a", "p", "p", "l", "e">>>>

\* C17: estimate_job_fit is 20 for no skills and min(95, 40 + 7 * |skills|)
\* otherwise, does not decrease when a skill is added, lies in 20..95, and
\* so does the fit score of every successful /analyze_job response.
C17_FitScore ==
    \A w \in Workers :
        /\ Called(w, "estimate_job_fit")
              => LET n == Len(req[w].body.skills)
                     v == req[w].body.value
                 IN  /\ v = IF n = 0 THEN 20
                            ELSE IF 40 + 7 * n < 95 THEN 40 + 7 * n ELSE 95
                     /\ v \in 20..95
                     /\ req[w].body.shorter <= v
        /\ (Called(w, "/analyze_job") /\ req[w].status = 200)
              => req[w].body.analysis.job_fit_score \in 20..95

\* the cap was reached
C17_Witness ==
    \E w \in Workers :
        /\ Called(w, "estimate_job_fit")
        /\ Len(req[w].body.skills) = 8
        /\ req[w].body.value = 95

\* position of the first occurrence of kw in s
FirstMention(s, kw) ==
    CHOOSE i \in 1..Len(s) :
        /\ SubSeq(s, i, i + Len(kw) - 1) = kw
        /\ \A j \in 1..(i - 1) : SubSeq(s, j, j + Len(kw) - 1) # kw

\* position of x in the sequence list
IndexIn(list, x) == CHOOSE i \in 1..Len(list) : list[i] = x

\* res holds exactly the keywords of list that occur in the text, each once
ExactMatches(res, list, text) ==
    /\ \A i \in 1..Len(res) : res[i] \in Range(list)
    /\ \A kw \in Range(list) : kw \in Range(res) <=> Contains(Lower(text), kw)
    /\ \A i, j \in 1..Len(res) : i # j => res[i] # res[j]

\* C18: find_languages returns exactly the languages of the fixed list that
\* occur in the text, each once, ordered by where each is first mentioned
\* in the text.
C18_FirstMentionOrder ==
    \A w \in Workers :
        Called(w, "find_languages")
        => LET res == req[w].body.value
               s == Lower(req[w].text)
           IN  /\ ExactMatches(res, LANGS, req[w].text)
               /\ \A i, j \in 1..Len(res) :
                     i < j => FirstMention(s, res[i]) < FirstMention(s, res[j])

\* C18 as amended: find_languages returns exactly the languages of the fixed
\* list that occur in the text, each once, in the order of the fixed list.
C18_ListOrder ==
    \A w \in Workers :
        Called(w, "find_languages")
        => LET res == req[w].body.value IN
           /\ ExactMatches(res, LANGS, req[w].text)
           /\ \A i, j \in 1..Len(res) :
                 i < j => IndexIn(LANGS, res[i]) < IndexIn(LANGS, res[j])

\* "french, german" gave german before french
C18_Witness ==
    \E w \in Workers :
        /\ Called(w, "find_languages")
        /\ req[w].body.value = <<<<"g", "e", "r", "m", "a", "n">>, <<"f", "r", "e", "n", "c", "h">>>>

\* C19: find_skills and find_technologies return exactly the keywords of
\* their list that occur in the text, in ascending order without duplicates.
C19_SortedSubsets ==
    \A w \in Workers :
        /\ Called(w, "find_skills")
              => ExactMatches(req[w].body.value, SKILL_KEYWORDS, req[w].text)
        /\ Called(w, "find_technologies")
              => ExactMatches(req[w].body.value, TECH, req[w].text)
        /\ (Called(w, "find_skills") \/ Called(w, "find_technologies"))
              => LET res == req[w].body.value IN
                 \A i, j \in 1..Len(res) : i < j => StrLess(res[i], res[j])

\* "Python, Java and JavaScript" gave java, javascript, python
C19_Witness ==
    \E w \in Workers :
        /\ Called(w, "find_skills")
        /\ req[w].body.value = <<<<"j", "a", "v", "a">>, <<"j", "a", "v", "a", "s", "c", "r", "i", "p", "t">>, <<"p", "y", "t", "h", "o", "n">>>>

\* C20: the three report paths of a successful request carry the same
\* timestamp and differ only in their extension, however the clock advances
\* between the three writes.
C20_OneTimestamp ==
    \A w \in Workers :
        (/\ req[w].pc = "done"
         /\ req[w].ep \in PersistEndpoints
         /\ req[w].status = 200)
        => /\ req[w].txt_path.ext = "txt"
           /\ req[w].json_path.ext = "json"
           /\ req[w].csv_path.ext = "csv"
           /\ req[w].txt_path.ts = req[w].json_path.ts
           /\ req[w].json_path.ts = req[w].csv_path.ts

NoPersistEndpoints ==
    {"/", "/process", "/analyze_only", "/summarize", "/translate", "/sentiment",
     "/sentiment_ai", "/scrape_url_ai", "/scrape_url", "/analyze_url_ai",
     "/analyze_job"}

\* the endpoint of the request worker w works on in this step
Serving(w) == IF req[w].pc = "idle" THEN req'[w].ep ELSE req[w].ep

\* C21: no step of a request to an endpoint without a persist step changes
\* the report directory or either request log, whether the request succeeds
\* or fails; only /process_text appends to the logs, and only /process_text,
\* /upload_file, /upload_pdf and /ai_report create report files.
C21_OnlyPersistersWrite ==
    [][\A w \in Workers :
          req'[w] # req[w]
          => /\ Serving(w) \in NoPersistEndpoints
                   => /\ files' = files
                      /\ requests_log' = requests_log
                      /\ requests_jsonl' = requests_jsonl
             /\ (requests_log' # requests_log \/ requests_jsonl' # requests_jsonl)
                   => Serving(w) = "/process_text"
             /\ files' # files => Serving(w) \in PersistEndpoints]_vars

\* a request without a persist step failed while reports and log entries of
\* an earlier request exist
C21_Witness ==
    \E w \in Workers :
        /\ req[w].pc = "done"
        /\ req[w].ep \in NoPersistEndpoints
        /\ req[w].status = 500
        /\ SomeReport
        /\ requests_log # <<>>
        /\ requests_jsonl # <<>>

====
